---- MODULE Spec2Model ----
(***************************************************************************)
(* The SDS acquisition engine of backend/core/sds_manager.py together with *)
(* the manual upload endpoint of backend/api/upload.py, as a state machine *)
(* over the download directory and the sds_files / chemicals /             *)
(* ghs_classifications tables.                                             *)
(*                                                                         *)
(* A document's bytes are a sequence of blocks; the first block of a PDF   *)
(* is the magic header "%PDF".  The external world (the six find_sds       *)
(* resolvers, the HTTP server behind requests.get, the disk, the database  *)
(* commit, the PDF parsers) is a nondeterministic choice over the outcomes *)
(* the code distinguishes.                                                 *)
(*                                                                         *)
(* The API handlers are `async def` functions that run blocking code on    *)
(* the single uvicorn event loop (start.py), so an upload or another       *)
(* request never interleaves with a batch in progress; the pool's worker   *)
(* processes of one batch do interleave.  upload.py defines its router but *)
(* backend/main.py does not include it; the upload is modelled as the      *)
(* handler is written.                                                     *)
(***************************************************************************)
EXTENDS Integers, Sequences, FiniteSets, TLC

VARIABLES
    files,        \* the download directory: identifier -> [exists, bytes]
    chemicals,    \* table chemicals: the set of cas_number values
    sds_files,    \* table sds_files: rows in id order
    ghs,          \* table ghs_classifications: rows in id order
    phase,        \* download_sds_batch: "idle" | "pool" | "returned"
    cas_list,     \* the argument cas_list of the call in progress
    pool_size,    \* the effective pool size of the call in progress
    task,         \* p.map: per list index, the worker's position and result
    idx,          \* the coordinator's loop position over download_results
    results,      \* the summary dictionary being built / returned
    prev,         \* the summary returned by the preceding call, with its list
    wrote,        \* identifiers whose file the call in progress has written
    requests,     \* the number of requests served so far
    settings,     \* config/settings.py: the Settings object
    extraction,   \* the extract_and_store_ghs_from_pdf call under study
    translation,  \* the translate_ghs_to_nfpa call under study
    bulk,         \* the upload_dotmatics_csv call under study: its locals
    inventory,    \* InventoryManager: quantities, units, transaction history
    crawler       \* get-all.py: output files, the two global lists, threads

\* the acquisition engine's own state
engine == <<files, chemicals, sds_files, ghs, phase, cas_list, pool_size,
            task, idx, results, prev, wrote, requests>>

\* what the acquisition engine never writes
others == <<settings, extraction, translation, bulk, inventory, crawler>>

vars == <<files, chemicals, sds_files, ghs, phase, cas_list, pool_size,
          task, idx, results, prev, wrote, requests,
          settings, extraction, translation, bulk, inventory, crawler>>

----------------------------------------------------------------------------
(* Bounds and program constants *)

\* the longest identifier list a caller passes
MaxList == 2
\* the largest explicit pool_size a caller passes
MaxPool == 1
\* the number of requests (batch calls, uploads, new chemicals) of a run
MaxRequests == 2
\* settings.MAX_DOWNLOAD_THREADS
MAX_DOWNLOAD_THREADS == 10

CasNumbers == {"67-64-1", "872-85-5"}

None == "None"

\* the ordered adapter list of _download_single_sds_static
Sources == <<"chemblink", "vwr", "fisher", "tci", "chemicalsafety", "fluorochem">>

\* the PDF magic header checked by validate_sds_file
PdfMagic == "%PDF"

\* documents a server may return or a user may upload
Bodies == { <<"%PDF", "a">>, <<"<htm", "b">> }

StartsWithPdf(bytes) == Len(bytes) >= 1 /\ bytes[1] = PdfMagic

\* the prefixes a write that fails part-way can leave behind
ProperPrefixes(bytes) == { SubSeq(bytes, 1, n) : n \in 0..(Len(bytes) - 1) }

NoFile == [exists |-> FALSE, bytes |-> <<>>]
FileOf(bytes) == [exists |-> TRUE, bytes |-> bytes]

\* f"{cas_nr}-SDS.pdf" and str(Path(download_path) / file_name)
FileName(cas) == cas \o "-SDS.pdf"
FilePath(cas) == "sds_files/" \o FileName(cas)

\* the pool_size arguments a caller passes: absent, or an integer
PoolSizes == {[given |-> FALSE, n |-> 0]} \cup { [given |-> TRUE, n |-> n] : n \in -1..MaxPool }

\* the cas_list arguments a caller passes
CasLists == UNION { [1..n -> CasNumbers] : n \in 0..MaxList }

----------------------------------------------------------------------------
(* hashlib.sha256: a digest computed from the blocks, injective on the      *)
(* documents of the model (no collisions)                                   *)

BlockCode(b) ==
    CASE b = "%PDF" -> 1
      [] b = "<htm" -> 2
      [] b = "a"    -> 3
      [] b = "b"    -> 4
      [] OTHER      -> 5

RECURSIVE Digest(_, _)
Digest(bytes, acc) ==
    IF bytes = <<>> THEN acc
    ELSE Digest(Tail(bytes), acc * 7 + BlockCode(Head(bytes)))

\* _calculate_file_checksum: "" when the file cannot be read
CalculateFileChecksum(cas) ==
    IF files[cas].exists THEN Digest(files[cas].bytes, 1) ELSE 0

----------------------------------------------------------------------------
(* Worker results: the tuple (cas_number, success, source, file_path, error) *)

Result(cas, success, source, path, err) ==
    [cas_number |-> cas, success |-> success, source |-> source,
     file_path |-> path, error |-> err]

NoResult == Result(None, FALSE, None, None, None)

NoResponse == [status |-> 0, redirects |-> 0, body |-> <<>>]

\* a queued task of p.map: the worker's position (pc, k: the index of the next
\* source), the sources whose extract_func it has called, whether it has
\* issued a GET, the response it saved, and the tuple it returned
NewTask(cas) ==
    [cas |-> cas, pc |-> "queued", k |-> 1, called |-> <<>>, fetched |-> FALSE,
     resp |-> NoResponse, res |-> NoResult]

Running(i) == task[i].pc \in {"check", "try"}

\* faulty variant: the results are handed over as soon as one worker is done
AllDone_AnyDone == \E i \in DOMAIN task : task[i].pc = "done"

\* p.map returns when every task has returned
AllDone == \A i \in DOMAIN task : task[i].pc = "done"

\* the results dictionary; has_counts is FALSE for the bare {"error": ...} dictionary
Summary(n) == [has_counts |-> TRUE, total |-> n, downloaded |-> 0, failed |-> 0,
               already_exists |-> 0, details |-> <<>>, error |-> None]
EmptySummary == [Summary(0) EXCEPT !.has_counts = FALSE]

\* what is remembered of the preceding call: its list, each entry's success, its error
NoPrev == [valid |-> FALSE, cas_list |-> <<>>, success |-> <<>>, error |-> None]

\* settings.SDS_SOURCES
SDS_SOURCES == <<"chemblink", "vwr", "fisher", "tci", "chemicalsafety", "fluorochem">>

\* the Settings object as config/settings.py declares it
DefaultSettings ==
    [SDS_SOURCES |-> SDS_SOURCES, MAX_DOWNLOAD_THREADS |-> MAX_DOWNLOAD_THREADS]

\* no call of the extractor, the translator or the bulk import is under study
NoCall == [active |-> FALSE]

InitEngine ==
    /\ files = [c \in CasNumbers |-> NoFile]
    /\ chemicals = {}
    /\ sds_files = <<>>
    /\ ghs = <<>>
    /\ phase = "idle"
    /\ cas_list = <<>>
    /\ pool_size = 0
    /\ task = <<>>
    /\ idx = 1
    /\ results = EmptySummary
    /\ prev = NoPrev
    /\ wrote = {}
    /\ requests = 0

Init ==
    /\ InitEngine
    /\ settings = DefaultSettings
    /\ extraction = NoCall
    /\ translation = NoCall
    /\ bulk = NoCall
    /\ inventory = NoCall
    /\ crawler = NoCall

----------------------------------------------------------------------------
(* download_sds_batch: the call, up to the creation of the pool *)

\* pool_size = settings.MAX_DOWNLOAD_THREADS when the caller gives none
EffectivePool(ps) == IF ps.given THEN ps.n ELSE settings.MAX_DOWNLOAD_THREADS

\* what a call remembers of the call that has just returned, when it was
\* made with the same list
Remember(list) ==
    IF phase = "returned" /\ results.has_counts /\ cas_list = list
    THEN [valid    |-> TRUE,
          cas_list |-> cas_list,
          success  |-> [i \in DOMAIN results.details |-> results.details[i].success],
          error    |-> results.error]
    ELSE NoPrev

\* a request can be served when no batch is in progress
Idle == phase \in {"idle", "returned"} /\ requests < MaxRequests

\* a request other than a batch call: the returned summary is gone
ForgetBatch ==
    /\ phase' = "idle"
    /\ cas_list' = <<>>
    /\ pool_size' = 0
    /\ task' = <<>>
    /\ idx' = 1
    /\ results' = EmptySummary
    /\ prev' = NoPrev
    /\ wrote' = {}

\* `if not cas_list: return {"error": ...}`
BatchEmptyList ==
    /\ Idle
    /\ requests' = requests + 1
    /\ prev' = Remember(<<>>)
    /\ cas_list' = <<>>
    /\ pool_size' = 0
    /\ task' = <<>>
    /\ idx' = 1
    /\ wrote' = {}
    /\ results' = [EmptySummary EXCEPT !.error = "No CAS numbers provided"]
    /\ phase' = "returned"
    /\ UNCHANGED <<files, chemicals, sds_files, ghs>>
    /\ UNCHANGED others

\* faulty variant: a pool size below 1 is not turned down and the tasks are queued
BatchBadPool_StartsWork(list, ps) ==
    /\ Idle
    /\ requests' = requests + 1
    /\ list # <<>>
    /\ EffectivePool(ps) < 1
    /\ prev' = Remember(list)
    /\ cas_list' = list
    /\ pool_size' = EffectivePool(ps)
    /\ task' = [i \in DOMAIN list |-> NewTask(list[i])]
    /\ idx' = 1
    /\ wrote' = {}
    /\ results' = Summary(Len(list))
    /\ phase' = "pool"
    /\ UNCHANGED <<files, chemicals, sds_files, ghs>>
    /\ UNCHANGED others

\* Pool(pool_size) raises ValueError for pool_size < 1; the handler of line 109
\* stores the text and the summary built so far is returned
BatchBadPool(list, ps) ==
    /\ Idle
    /\ requests' = requests + 1
    /\ list # <<>>
    /\ EffectivePool(ps) < 1
    /\ prev' = Remember(list)
    /\ cas_list' = list
    /\ pool_size' = EffectivePool(ps)
    /\ task' = <<>>
    /\ idx' = 1
    /\ wrote' = {}
    /\ results' = [Summary(Len(list)) EXCEPT !.error = "Number of processes must be at least 1"]
    /\ phase' = "returned"
    /\ UNCHANGED <<files, chemicals, sds_files, ghs>>
    /\ UNCHANGED others

\* the pool is created and p.map queues one task per list entry, in list order
BatchStart(list, ps) ==
    /\ Idle
    /\ requests' = requests + 1
    /\ list # <<>>
    /\ EffectivePool(ps) >= 1
    /\ prev' = Remember(list)
    /\ cas_list' = list
    /\ pool_size' = EffectivePool(ps)
    /\ task' = [i \in DOMAIN list |-> NewTask(list[i])]
    /\ idx' = 1
    /\ wrote' = {}
    /\ results' = Summary(Len(list))
    /\ phase' = "pool"
    /\ UNCHANGED <<files, chemicals, sds_files, ghs>>
    /\ UNCHANGED others

----------------------------------------------------------------------------
(* _download_single_sds_static, run by a pool worker for list entry i *)

\* faulty variant: a task starts whether or not a worker is free
WorkerTake_NoLimit(i) ==
    /\ phase = "pool"
    /\ task[i].pc = "queued"
    /\ task' = [task EXCEPT ![i].pc = "check"]
    /\ UNCHANGED <<files, chemicals, sds_files, ghs, phase, cas_list, pool_size,
                   idx, results, prev, wrote, requests>>
    /\ UNCHANGED others

\* a free worker takes the next queued task
WorkerTake(i) ==
    /\ phase = "pool"
    /\ task[i].pc = "queued"
    /\ \A j \in 1..(i - 1) : task[j].pc # "queued"
    /\ Cardinality({j \in DOMAIN task : Running(j)}) < pool_size
    /\ task' = [task EXCEPT ![i].pc = "check"]
    /\ UNCHANGED <<files, chemicals, sds_files, ghs, phase, cas_list, pool_size,
                   idx, results, prev, wrote, requests>>
    /\ UNCHANGED others

\* faulty variant: the existence check is skipped
AfterExistsCheck_Skipped(t, exists) ==
    [t EXCEPT !.pc = "try", !.k = 1]

\* `if file_path.exists(): return cas_nr, True, "already_exists", str(file_path), None`
AfterExistsCheck(t, exists) ==
    IF exists
    THEN [t EXCEPT !.pc = "done",
                   !.res = Result(t.cas, TRUE, "already_exists", FilePath(t.cas), None)]
    ELSE [t EXCEPT !.pc = "try", !.k = 1]

WorkerCheckExists(i) ==
    /\ phase = "pool"
    /\ task[i].pc = "check"
    /\ task' = [task EXCEPT ![i] = AfterExistsCheck(task[i], files[task[i].cas].exists)]
    /\ UNCHANGED <<files, chemicals, sds_files, ghs, phase, cas_list, pool_size,
                   idx, results, prev, wrote, requests>>
    /\ UNCHANGED others

\* faulty variant: a failing source sends the worker back and forth between
\* the first two sources
AfterFailure_GoesBack(t) ==
    IF t.k = 1
    THEN [t EXCEPT !.k = 2, !.called = <<Sources[1]>>]
    ELSE [t EXCEPT !.k = 1, !.called = <<>>]

\* faulty variant: a failing source ends the identifier
AfterFailure_GivesUp(t) ==
    [t EXCEPT !.pc = "done", !.k = t.k + 1,
              !.res = Result(t.cas, FALSE, None, None, "No SDS found from any source")]

\* the loop `for source_name, extract_func in sources` moves on; after the last
\* source: `return cas_nr, False, None, None, "No SDS found from any source"`
AfterFailure(t) ==
    IF t.k < Len(Sources)
    THEN [t EXCEPT !.k = t.k + 1]
    ELSE [t EXCEPT !.pc = "done", !.k = t.k + 1,
                   !.res = Result(t.cas, FALSE, None, None, "No SDS found from any source")]

\* faulty variant: the loop does not return after saving
AfterSuccess_KeepsTrying(t) == AfterFailure(t)

\* faulty variant: the worker looks for the file again before it saves, and
\* reports already_exists when another worker has stored it meanwhile
AfterSuccess_Rechecks(t) ==
    IF files[t.cas].exists
    THEN [t EXCEPT !.pc = "done",
                   !.res = Result(t.cas, TRUE, "already_exists", FilePath(t.cas), None)]
    ELSE [t EXCEPT !.pc = "done",
                   !.res = Result(t.cas, TRUE, Sources[t.k], FilePath(t.cas), None)]

\* `return cas_nr, True, source_name, str(file_path), None`
AfterSuccess(t) ==
    [t EXCEPT !.pc = "done",
              !.res = Result(t.cas, TRUE, Sources[t.k], FilePath(t.cas), None)]

\* `if response.status_code == 200 and len(response.history) == 0`
Accepts(response) == response.status = 200 /\ response.redirects = 0

\* the responses requests.get can return: a status, the number of redirects
\* followed, the body
Responses == [status : {200, 404}, redirects : {0, 1}, body : Bodies]

\* extract_func(cas_nr) raises, or requests.get raises (timeout, connection):
\* `except Exception: continue`
AdapterRaises(i) ==
    /\ phase = "pool"
    /\ task[i].pc = "try"
    /\ \E fetched \in BOOLEAN :
         task' = [task EXCEPT ![i] = AfterFailure(
                    [task[i] EXCEPT !.called = Append(@, Sources[task[i].k]),
                                    !.fetched = @ \/ fetched])]
    /\ UNCHANGED <<files, chemicals, sds_files, ghs, phase, cas_list, pool_size,
                   idx, results, prev, wrote, requests>>
    /\ UNCHANGED others

\* extract_func(cas_nr) returns nothing, or a pair without a URL
AdapterNoMatch(i) ==
    /\ phase = "pool"
    /\ task[i].pc = "try"
    /\ task' = [task EXCEPT ![i] = AfterFailure(
                    [task[i] EXCEPT !.called = Append(@, Sources[task[i].k])])]
    /\ UNCHANGED <<files, chemicals, sds_files, ghs, phase, cas_list, pool_size,
                   idx, results, prev, wrote, requests>>
    /\ UNCHANGED others

\* requests.get returns a response the test of line 168 turns down
AdapterBadResponse(i) ==
    /\ phase = "pool"
    /\ task[i].pc = "try"
    /\ \E response \in Responses :
         /\ ~Accepts(response)
         /\ task' = [task EXCEPT ![i] = AfterFailure(
                        [task[i] EXCEPT !.called = Append(@, Sources[task[i].k]),
                                        !.fetched = TRUE])]
    /\ UNCHANGED <<files, chemicals, sds_files, ghs, phase, cas_list, pool_size,
                   idx, results, prev, wrote, requests>>
    /\ UNCHANGED others

\* the response is accepted and `open(file_path, 'wb')` / `f.write` raise:
\* open fails and leaves the directory as it is, or the write fails part-way
\* and leaves a prefix of the body; `except Exception: continue`
AdapterWriteFails(i) ==
    /\ phase = "pool"
    /\ task[i].pc = "try"
    /\ \E response \in Responses :
         /\ Accepts(response)
         /\ \/ UNCHANGED <<files, wrote>>
            \/ \E part \in ProperPrefixes(response.body) :
                 /\ files' = [files EXCEPT ![task[i].cas] = FileOf(part)]
                 /\ wrote' = wrote \cup {task[i].cas}
         /\ task' = [task EXCEPT ![i] = AfterFailure(
                        [task[i] EXCEPT !.called = Append(@, Sources[task[i].k]),
                                        !.fetched = TRUE])]
    /\ UNCHANGED <<chemicals, sds_files, ghs, phase, cas_list, pool_size,
                   idx, results, prev, requests>>
    /\ UNCHANGED others

\* the response is accepted and its content is written to file_path
AdapterDownloads(i) ==
    /\ phase = "pool"
    /\ task[i].pc = "try"
    /\ \E response \in Responses :
         /\ Accepts(response)
         /\ files' = [files EXCEPT ![task[i].cas] = FileOf(response.body)]
         /\ wrote' = wrote \cup {task[i].cas}
         /\ task' = [task EXCEPT ![i] = AfterSuccess(
                        [task[i] EXCEPT !.called = Append(@, Sources[task[i].k]),
                                        !.fetched = TRUE,
                                        !.resp = response])]
    /\ UNCHANGED <<chemicals, sds_files, ghs, phase, cas_list, pool_size,
                   idx, results, prev, requests>>
    /\ UNCHANGED others

----------------------------------------------------------------------------
(* The tables *)

\* an SDSFile row; chemical_id is the id of the chemical with this cas_number
SdsRow(cas, path, size, checksum, source) ==
    [chemical |-> cas, file_path |-> path, file_name |-> FileName(cas),
     file_size |-> size, checksum |-> checksum, source |-> source, is_valid |-> TRUE]

\* `Path(file_path).stat().st_size if Path(file_path).exists() else 0`
FileSize(cas) == IF files[cas].exists THEN Len(files[cas].bytes) ELSE 0

\* _update_database_record: the states of (chemicals, sds_files) it can leave.
\* The chemical is created when missing, a row is added unless one with this
\* chemical and file name exists, and both are committed together; an
\* exception rolls everything back.
UpdateDatabaseRecord(cas, path, source) ==
    LET existing_sds == { n \in DOMAIN sds_files :
                            /\ sds_files[n].chemical = cas
                            /\ sds_files[n].file_name = FileName(cas) }
        row == SdsRow(cas, path, FileSize(cas), CalculateFileChecksum(cas), source)
        committed == [chemicals |-> chemicals \cup {cas},
                      sds_files |-> IF existing_sds = {}
                                    THEN Append(sds_files, row) ELSE sds_files]
        rolled_back == [chemicals |-> chemicals, sds_files |-> sds_files]
    IN  {committed, rolled_back}

\* the ghs_info dictionary of extract_ghs_from_pdf
GhsInfo(source, signal, hs, pictos) ==
    [source |-> source, signal_word |-> signal, hazard_statements |-> hs,
     pictograms |-> pictos]

\* `return {"error": str(e), "source": "error"}`: every .get() on it gives None
\* (NullList stands for the None a list-valued key gives)
NullList == <<None>>
GhsErrorInfo == GhsInfo("error", None, NullList, NullList)

\* what parse_sds can yield for a readable PDF, after the H-code scan of
\* lines 380-399: hazard statements and pictograms
Stage1Yields == { [hs |-> <<"H225">>, pictos |-> <<"GHS02">>],
                  [hs |-> <<>>, pictos |-> <<>>] }

\* what the pattern scans of lines 419-445 can yield for the text of a PDF
Stage2Yields == { [signal |-> "Warning", hs |-> <<"H315">>, pictos |-> <<>>] }

\* extract_ghs_from_pdf: the dictionaries it can return for the file of `cas`.
\* A file that is missing or is no PDF makes both parsers raise.
ExtractGhsFromPdf(cas) ==
    LET readable == files[cas].exists /\ files[cas].bytes \in Bodies
                    /\ StartsWithPdf(files[cas].bytes)
        \* Stage 1 output accepted: `if ghs_info['hazard_statements'] or ghs_info['pictograms']`
        accepted == { GhsInfo("sdsparser", None, y.hs, y.pictos) :
                        y \in { z \in Stage1Yields : z.hs # <<>> \/ z.pictos # <<>> } }
        \* Stage 1 raised: the tag becomes 'pypdf2_fallback'
        after_raise == { GhsInfo("pypdf2_fallback", y.signal, y.hs, y.pictos) :
                           y \in Stage2Yields }
        \* Stage 1 returned nothing usable: the tag stays 'sdsparser'
        after_empty == { GhsInfo("sdsparser", y.signal, y.hs, y.pictos) :
                           y \in Stage2Yields }
    IN  IF readable
        THEN accepted \cup after_raise \cup after_empty \cup {GhsErrorInfo}
        ELSE {GhsErrorInfo}

\* a GHSClassification row
GhsRow(cas, info) ==
    [chemical |-> cas, signal_word |-> info.signal_word,
     hazard_statements |-> info.hazard_statements, pictograms |-> info.pictograms,
     classification_source |-> "pdf_extraction"]

RECURSIVE WithoutChemical(_, _)
WithoutChemical(rows, cas) ==
    IF rows = <<>> THEN <<>>
    ELSE IF Head(rows).chemical = cas THEN WithoutChemical(Tail(rows), cas)
    ELSE <<Head(rows)>> \o WithoutChemical(Tail(rows), cas)

\* extract_and_store_ghs_from_pdf with a session: the states of ghs it can
\* leave, given the chemicals table `chems`.  The old rows of the chemical are
\* deleted and the new row added in one transaction; an exception rolls back.
ExtractAndStoreGhs(cas, chems) ==
    IF cas \notin chems
    THEN {ghs}
    ELSE {ghs} \cup { Append(WithoutChemical(ghs, cas), GhsRow(cas, info)) :
                        info \in ExtractGhsFromPdf(cas) }

----------------------------------------------------------------------------
(* download_sds_batch: the coordinator's loop over download_results *)

Detail(r) ==
    [cas_number |-> r.cas_number, success |-> r.success, source |-> r.source,
     file_path |-> r.file_path, error |-> r.error]

\* faulty variant: a failed result is counted but gets no details entry
Count_DropsFailed(sum, r) ==
    IF r.success
    THEN [sum EXCEPT
            !.already_exists = @ + (IF r.source = "already_exists" THEN 1 ELSE 0),
            !.downloaded = @ + (IF r.source # "already_exists" THEN 1 ELSE 0),
            !.details = Append(@, Detail(r))]
    ELSE [sum EXCEPT !.failed = @ + 1]

\* faulty variant: an existing file is counted as downloaded
Count_ExistingAsDownloaded(sum, r) ==
    [sum EXCEPT
       !.downloaded = @ + (IF r.success THEN 1 ELSE 0),
       !.failed = @ + (IF ~r.success THEN 1 ELSE 0),
       !.details = Append(@, Detail(r))]

\* the counters and the details after one more result
Count(sum, r) ==
    [sum EXCEPT
       !.already_exists = @ + (IF r.success /\ r.source = "already_exists" THEN 1 ELSE 0),
       !.downloaded = @ + (IF r.success /\ r.source # "already_exists" THEN 1 ELSE 0),
       !.failed = @ + (IF ~r.success THEN 1 ELSE 0),
       !.details = Append(@, Detail(r))]

\* faulty variant: the results come back in another order than the list's
DownloadResults_Reversed == [i \in DOMAIN task |-> task[Len(task) + 1 - i].res]

\* p.map returns the results in the order of cas_list
DownloadResults == [i \in DOMAIN task |-> task[i].res]

\* every SDSManager of the repository is constructed with a session
HasDbSession == TRUE

\* faulty variant: the record write and the extraction are also made for a
\* file that was already there
Collect_ExtractsExisting ==
    /\ phase = "pool"
    /\ AllDone
    /\ idx <= Len(task)
    /\ LET r == DownloadResults[idx] IN
         /\ results' = Count(results, r)
         /\ IF r.success
            THEN \E db \in UpdateDatabaseRecord(r.cas_number, r.file_path, r.source) :
                   /\ chemicals' = db.chemicals
                   /\ sds_files' = db.sds_files
                   /\ ghs' \in ExtractAndStoreGhs(r.cas_number, db.chemicals)
            ELSE UNCHANGED <<chemicals, sds_files, ghs>>
    /\ idx' = idx + 1
    /\ phase' = IF idx = Len(task) THEN "returned" ELSE "pool"
    /\ UNCHANGED <<files, cas_list, pool_size, task, prev, wrote, requests>>
    /\ UNCHANGED others

\* one iteration of `for cas_nr, success, source, file_path, error_msg in
\* download_results`; after the last one the summary is returned
Collect ==
    /\ phase = "pool"
    /\ AllDone
    /\ idx <= Len(task)
    /\ LET r == DownloadResults[idx] IN
         /\ results' = Count(results, r)
         /\ IF r.success /\ r.source # "already_exists" /\ HasDbSession
            THEN \E db \in UpdateDatabaseRecord(r.cas_number, r.file_path, r.source) :
                   /\ chemicals' = db.chemicals
                   /\ sds_files' = db.sds_files
                   /\ ghs' \in ExtractAndStoreGhs(r.cas_number, db.chemicals)
            ELSE UNCHANGED <<chemicals, sds_files, ghs>>
    /\ idx' = idx + 1
    /\ phase' = IF idx = Len(task) THEN "returned" ELSE "pool"
    /\ UNCHANGED <<files, cas_list, pool_size, task, prev, wrote, requests>>
    /\ UNCHANGED others

----------------------------------------------------------------------------
(* The other requests that change the directory and the tables *)

\* InventoryManager.add_chemical: a chemical with a new cas_number is stored
AddChemical(cas) ==
    /\ Idle
    /\ requests' = requests + 1
    /\ cas \notin chemicals
    /\ chemicals' = chemicals \cup {cas}
    /\ ForgetBatch
    /\ UNCHANGED <<files, sds_files, ghs>>
    /\ UNCHANGED others

\* upload_sds_file for a known chemical and a file name ending in .pdf: the
\* file is written over {cas}-SDS.pdf, then a row is added unless some row
\* already has the checksum of the written file
UploadRows(cas, source) ==
    LET checksum == Digest(files'[cas].bytes, 1)
        existing_file == { n \in DOMAIN sds_files : sds_files[n].checksum = checksum }
    IN  IF existing_file # {}
        THEN sds_files
        ELSE Append(sds_files,
                    SdsRow(cas, FilePath(cas), Len(files'[cas].bytes), checksum, source))

UploadSdsFile(cas, bytes) ==
    /\ Idle
    /\ requests' = requests + 1
    /\ cas \in chemicals
    /\ files' = [files EXCEPT ![cas] = FileOf(bytes)]
    /\ sds_files' = UploadRows(cas, "manual_upload")
    /\ ForgetBatch
    /\ UNCHANGED <<chemicals, ghs>>
    /\ UNCHANGED others

\* POST /{cas_number}/extract-ghs: 404 unless the chemical has an sds_files
\* row; otherwise extraction runs on {download_path}/{file_name} of its row
ExtractGhsFromSds(cas) ==
    /\ Idle
    /\ requests' = requests + 1
    /\ cas \in chemicals
    /\ \E n \in DOMAIN sds_files : sds_files[n].chemical = cas
    /\ ghs' \in ExtractAndStoreGhs(cas, chemicals)
    /\ ForgetBatch
    /\ UNCHANGED <<files, chemicals, sds_files>>
    /\ UNCHANGED others

----------------------------------------------------------------------------

Next ==
    \/ BatchEmptyList
    \/ \E list \in CasLists, ps \in PoolSizes : BatchBadPool(list, ps)
    \/ \E list \in CasLists, ps \in PoolSizes : BatchStart(list, ps)
    \/ \E i \in DOMAIN task : WorkerTake(i)
    \/ \E i \in DOMAIN task : WorkerCheckExists(i)
    \/ \E i \in DOMAIN task : AdapterRaises(i)
    \/ \E i \in DOMAIN task : AdapterNoMatch(i)
    \/ \E i \in DOMAIN task : AdapterBadResponse(i)
    \/ \E i \in DOMAIN task : AdapterWriteFails(i)
    \/ \E i \in DOMAIN task : AdapterDownloads(i)
    \/ Collect
    \/ \E cas \in CasNumbers : AddChemical(cas)
    \/ \E cas \in CasNumbers, bytes \in Bodies : UploadSdsFile(cas, bytes)
    \/ \E cas \in CasNumbers : ExtractGhsFromSds(cas)

Spec == Init /\ [][Next]_vars

----------------------------------------------------------------------------
(* One call of download_sds_batch run to its end.  The pool's worker       *)
(* processes are scheduled by the operating system and every extract_func  *)
(* and requests.get(timeout=DOWNLOAD_TIMEOUT) call returns or raises, so a *)
(* worker that can take a step eventually takes one; the coordinator's     *)
(* loop is plain sequential code.                                          *)

\* the number of batch calls of a run to completion
MaxLiveCalls == 1

\* a step of the worker that handles list entry i
WorkerStep(i) ==
    /\ i \in DOMAIN task
    /\ \/ WorkerTake(i)
       \/ WorkerCheckExists(i)
       \/ AdapterRaises(i)
       \/ AdapterNoMatch(i)
       \/ AdapterBadResponse(i)
       \/ AdapterWriteFails(i)
       \/ AdapterDownloads(i)

SubmitBatch ==
    /\ requests < MaxLiveCalls
    /\ \E list \in CasLists, ps \in PoolSizes : BatchStart(list, ps)

NextBatch ==
    \/ SubmitBatch
    \/ \E i \in 1..MaxList : WorkerStep(i)
    \/ Collect

SpecBatch ==
    /\ Init
    /\ [][NextBatch]_vars
    /\ \A i \in 1..MaxList : WF_vars(WorkerStep(i))
    /\ WF_vars(Collect)

----------------------------------------------------------------------------
(* extract_ghs_from_pdf on a document's content.  A text is a sequence of   *)
(* symbols: the single characters the patterns inspect one by one, and     *)
(* whole words where a pattern matches a literal as a unit.                 *)

MaxRuns == 2
MaxPieces == 5

Digits == {"0", "1", "2", "3", "4", "5", "6", "7", "8", "9"}
Whitespace == {" ", "\n"}

H225 == <<"H", "2", "2", "5">>
H315 == <<"H", "3", "1", "5">>
H125 == <<"H", "1", "2", "5">>
GHS02 == <<"GHS", "0", "2">>

\* the ordinal of a symbol's first character
Ord(s) ==
    CASE s = "\n" -> 10
      [] s = " " -> 32
      [] s = "," -> 44
      [] s = "." -> 46
      [] s \in Digits -> 48 + (CHOOSE d \in 0..9 :
                                 s = <<"0", "1", "2", "3", "4", "5", "6", "7", "8", "9">>[d + 1])
      [] s = ":" -> 58
      [] s = "Danger" -> 68
      [] s = "GHS" -> 71
      [] s = "H" -> 72
      [] s = "None" -> 78
      [] s = "Signal word" -> 83
      [] s = "Warning" -> 87
      [] s = "danger" -> 100
      [] s = "signal word" -> 115

\* str.__lt__
RECURSIVE Less(_, _)
Less(a, b) ==
    IF b = <<>> THEN FALSE
    ELSE IF a = <<>> THEN TRUE
    ELSE IF Head(a) = Head(b) THEN Less(Tail(a), Tail(b))
    ELSE Ord(Head(a)) < Ord(Head(b))

\* list(sorted(set(found)))
RECURSIVE Ascending(_)
Ascending(S) ==
    IF S = {} THEN <<>>
    ELSE LET least == CHOOSE x \in S : \A y \in S \ {x} : Less(x, y)
         IN  <<least>> \o Ascending(S \ {least})

SortedSet(found) == Ascending({ found[i] : i \in DOMAIN found })

\* re.sub(r'\s+', ' ', text)
RECURSIVE NormalizeWhitespace(_)
NormalizeWhitespace(text) ==
    IF text = <<>> THEN <<>>
    ELSE IF Head(text) \in Whitespace
    THEN IF Len(text) > 1 /\ text[2] \in Whitespace
         THEN NormalizeWhitespace(Tail(text))
         ELSE <<" ">> \o NormalizeWhitespace(Tail(text))
    ELSE <<Head(text)>> \o NormalizeWhitespace(Tail(text))

\* str.strip()
RECURSIVE Strip(_)
Strip(s) ==
    IF s = <<>> THEN <<>>
    ELSE IF Head(s) \in Whitespace THEN Strip(Tail(s))
    ELSE IF s[Len(s)] \in Whitespace THEN Strip(SubSeq(s, 1, Len(s) - 1))
    ELSE s

\* H[2-4][0-9]{2} matches at position i
IsHCodeAt(text, i) ==
    /\ i + 3 <= Len(text)
    /\ text[i] = "H"
    /\ text[i + 1] \in {"2", "3", "4"}
    /\ text[i + 2] \in Digits
    /\ text[i + 3] \in Digits

\* [^.]* from position j: the last position of the longest run without a period
RECURSIVE RunEnd(_, _)
RunEnd(text, j) ==
    IF j > Len(text) \/ text[j] = "." THEN j - 1 ELSE RunEnd(text, j + 1)

\* the end of the match of H[2-4][0-9]{2}[^.]*\.? that starts at i
MatchEnd(text, i) ==
    LET e == RunEnd(text, i + 4)
    IN  IF e < Len(text) /\ text[e + 1] = "." THEN e + 1 ELSE e

\* re.findall(r'(H[2-4][0-9]{2}[^.]*\.?)', text), scanning from position i
RECURSIVE FindAllH(_, _)
FindAllH(text, i) ==
    IF i > Len(text) THEN <<>>
    ELSE IF IsHCodeAt(text, i)
    THEN <<SubSeq(text, i, MatchEnd(text, i))>> \o FindAllH(text, MatchEnd(text, i) + 1)
    ELSE FindAllH(text, i + 1)

\* re.findall(r'(GHS[0-9]{2})', text), scanning from position i
RECURSIVE FindAllPictograms(_, _)
FindAllPictograms(text, i) ==
    IF i > Len(text) THEN <<>>
    ELSE IF /\ i + 2 <= Len(text)
            /\ text[i] = "GHS"
            /\ text[i + 1] \in Digits
            /\ text[i + 2] \in Digits
    THEN <<SubSeq(text, i, i + 2)>> \o FindAllPictograms(text, i + 3)
    ELSE FindAllPictograms(text, i + 1)

\* re.search(r'Signal word[:\s]+(Danger|Warning)', text, re.IGNORECASE):
\* the positions of the word captured by a match
SignalWordMatches(text) ==
    { j \in DOMAIN text :
        /\ text[j] \in {"Danger", "danger", "Warning"}
        /\ \E i \in 1..(j - 2) :
             /\ text[i] \in {"Signal word", "signal word"}
             /\ \A k \in (i + 1)..(j - 1) : text[k] \in {":"} \cup Whitespace }

\* str.capitalize() of the captured word
Capitalize(w) == IF w \in {"Danger", "danger"} THEN "Danger" ELSE "Warning"

\* [list.extend(re.findall(...)) for stmt in statements]
RECURSIVE HCodesOfStatements(_)
HCodesOfStatements(statements) ==
    IF statements = <<>> THEN <<>>
    ELSE FindAllH(Head(statements), 1) \o HCodesOfStatements(Tail(statements))

\* what the document holds for the two parsers: `structured` is what the
\* import of sdsparser and parse_sds(file_path) do, `text` what PyPDF2 reads
Document(kind, statements, pictograms, readable, text) ==
    [kind |-> kind, hazard_statements |-> statements, pictograms |-> pictograms,
     readable |-> readable, text |-> text]

\* `{"error": str(e), "source": "error"}`: every .get() on it gives None
NullStatements == << <<None>> >>
ErrorInfo == GhsInfo("error", None, NullStatements, NullStatements)

\* the first parser's part of ghs_info (lines 372-399), for parsed data
Stage1(doc) ==
    LET stmts == doc.hazard_statements
        signal == IF stmts # <<>> /\ \E i \in DOMAIN stmts :
                                       \E k \in DOMAIN stmts[i] : stmts[i][k] = "Danger"
                  THEN "Danger"
                  ELSE IF stmts # <<>> /\ \E i \in DOMAIN stmts :
                                            \E k \in DOMAIN stmts[i] : stmts[i][k] = "Warning"
                  THEN "Warning"
                  ELSE None
    IN  GhsInfo("sdsparser", signal, SortedSet(HCodesOfStatements(stmts)), doc.pictograms)

\* the PyPDF2 part (lines 413-447) applied to the ghs_info built so far;
\* a file PyPDF2 cannot read raises into the outer handler
Stage2(doc, info) ==
    LET text == NormalizeWhitespace(doc.text)
        m == SignalWordMatches(text)
        first == CHOOSE j \in m : \A k \in m : j <= k
        found == FindAllH(text, 1)
    IN  IF ~doc.readable THEN ErrorInfo
        ELSE GhsInfo(info.source,
                     IF m # {} THEN Capitalize(text[first]) ELSE info.signal_word,
                     SortedSet([i \in DOMAIN found |-> Strip(found[i])]),
                     SortedSet(FindAllPictograms(text, 1)))

\* the ghs_info of lines 354-361
InitialInfo == GhsInfo("sdsparser", None, <<>>, <<>>)

\* extract_ghs_from_pdf: the dictionary returned and the parsers that ran
ExtractGhs(doc) ==
    CASE doc.kind = "import_error" -> [info |-> ErrorInfo, stages |-> <<>>]
      [] doc.kind = "raises" ->
            [info |-> Stage2(doc, [InitialInfo EXCEPT !.source = "pypdf2_fallback"]),
             stages |-> <<1, 2>>]
      [] doc.kind = "none" -> [info |-> Stage2(doc, InitialInfo), stages |-> <<1, 2>>]
      [] doc.kind = "data" ->
            LET info == Stage1(doc)
            IN  IF info.hazard_statements # <<>> \/ info.pictograms # <<>>
                THEN [info |-> info, stages |-> <<1>>]
                ELSE [info |-> Stage2(doc, info), stages |-> <<1, 2>>]

\* the points of the transaction at which the database can raise
Faults == {"none", "delete", "insert", "commit"}

\* faulty variant: a failure after the delete leaves the old rows deleted
StoreGhs_NoRollback(cas, info, fault) ==
    IF cas \notin chemicals THEN [success |-> FALSE, ghs |-> ghs]
    ELSE IF fault = "delete" THEN [success |-> FALSE, ghs |-> ghs]
    ELSE IF fault # "none" THEN [success |-> FALSE, ghs |-> WithoutChemical(ghs, cas)]
    ELSE [success |-> TRUE, ghs |-> Append(WithoutChemical(ghs, cas), GhsRow(cas, info))]

\* lines 334-350: lookup, delete, add, commit; an exception rolls back
StoreGhs(cas, info, fault) ==
    IF cas \notin chemicals THEN [success |-> FALSE, ghs |-> ghs]
    ELSE IF fault # "none" THEN [success |-> FALSE, ghs |-> ghs]
    ELSE [success |-> TRUE, ghs |-> Append(WithoutChemical(ghs, cas), GhsRow(cas, info))]

\* the sentences a structured parse can hold
Statements == { <<>>,
                << H225 \o <<" ">> \o H225 \o <<".">> \o H315 >>,
                << <<"Danger">> >> }

\* the texts PyPDF2 can read from a stored document
StoredTexts ==
    { <<>>,
      <<"Signal word", ":", " ", "danger", "\n", " ">> \o H225 \o <<",", " ">>
          \o H225 \o <<",", " ">> \o H315,
      H315 \o <<" ", ".", " ">> \o GHS02 \o <<" ">> \o GHS02 \o <<" ">> \o H225 \o <<".">>,
      <<"Signal word", "Warning">> \o H125 }

Documents ==
    { Document(k, <<>>, <<>>, r, t) :
        k \in {"import_error", "raises", "none"}, r \in BOOLEAN, t \in StoredTexts }
    \cup { Document("data", s, p, r, t) :
             s \in Statements, p \in {<<>>, <<GHS02>>}, r \in BOOLEAN, t \in StoredTexts }

\* the number of extraction calls made
Runs == IF extraction.active THEN extraction.n ELSE 0

\* extract_and_store_ghs_from_pdf(cas, path) on a manager with a session
ExtractAndStore(cas, doc, fault) ==
    LET got == ExtractGhs(doc)
        stored == StoreGhs(cas, got.info, fault)
    IN  /\ Runs < MaxRuns
        /\ cas \in chemicals \/ fault = "none"
        /\ extraction' = [active |-> TRUE, n |-> Runs + 1, cas |-> cas, doc |-> doc,
                          info |-> got.info, stages |-> got.stages,
                          fault |-> fault, success |-> stored.success]
        /\ ghs' = stored.ghs
        /\ UNCHANGED <<files, chemicals, sds_files, phase, cas_list, pool_size,
                       task, idx, results, prev, wrote, requests>>
        /\ UNCHANGED <<settings, translation, bulk, inventory, crawler>>

NextExtract ==
    \/ \E cas \in CasNumbers : AddChemical(cas)
    \/ \E cas \in CasNumbers, doc \in Documents, fault \in Faults :
         ExtractAndStore(cas, doc, fault)

SpecExtract == Init /\ [][NextExtract]_vars

----------------------------------------------------------------------------
(* extract_ghs_from_pdf as a function of the text, for a document whose     *)
(* structured parse raises                                                  *)

Pieces == { H225, H315, H125, <<",", " ">>, <<".">>, <<" ">>, <<"\n">> }

RECURSIVE TextsOf(_)
TextsOf(n) ==
    IF n = 0 THEN { <<>> }
    ELSE LET shorter == TextsOf(n - 1)
         IN  shorter \cup { t \o p : t \in shorter, p \in Pieces }

Texts == TextsOf(MaxPieces)

InitScan ==
    /\ InitEngine
    /\ settings = DefaultSettings
    /\ extraction \in { [active |-> FALSE, doc |-> Document("raises", <<>>, <<>>, TRUE, t)] :
                          t \in Texts }
    /\ translation = NoCall
    /\ bulk = NoCall
    /\ inventory = NoCall
    /\ crawler = NoCall

Scan ==
    /\ ~extraction.active
    /\ extraction' = [active |-> TRUE, doc |-> extraction.doc,
                      info |-> ExtractGhs(extraction.doc).info]
    /\ UNCHANGED engine
    /\ UNCHANGED <<settings, translation, bulk, inventory, crawler>>

SpecScan == InitScan /\ [][Scan]_vars

----------------------------------------------------------------------------
(* utils/ghs_nfpa_translator.py: translate_ghs_to_nfpa over a rule table.   *)
(* The table is the translator's input (rules_path); the call's inputs are *)
(* drawn together with it.                                                  *)

MaxRules == 2

\* an optional float argument: None, or a value
NotSupplied == [given |-> FALSE, v |-> 0]
Supplied(v) == [given |-> TRUE, v |-> v]

\* the constraint a rule holds under 'flash_point_f' or 'boiling_point_f':
\* `present` is the key's presence in the rule, has_min / has_max that of
\* 'min' / 'max', and an inclusive flag is "absent", "true" or "false"
Constraint(present, has_min, min, min_inclusive, has_max, max, max_inclusive) ==
    [present |-> present,
     has_min |-> has_min, min |-> min, min_inclusive |-> min_inclusive,
     has_max |-> has_max, max |-> max, max_inclusive |-> max_inclusive]

NoConstraint == Constraint(FALSE, FALSE, 0, "absent", FALSE, 0, "absent")

\* dict.get('min_inclusive', True) / dict.get('max_inclusive', True)
GetInclusive(flag) == flag # "false"

\* faulty variant: a value that is not supplied fails a rule that bounds it
WithinBounds_NoneFails(c, value) ==
    \/ ~c.present
    \/ /\ value.given \/ (~c.has_min /\ ~c.has_max)
       /\ c.has_min => IF GetInclusive(c.min_inclusive)
                          THEN ~(value.v < c.min) ELSE ~(value.v <= c.min)
       /\ c.has_max => IF GetInclusive(c.max_inclusive)
                          THEN ~(value.v > c.max) ELSE ~(value.v >= c.max)

\* faulty variant: a bound without an inclusive flag is taken as exclusive
WithinBounds_ExclusiveByDefault(c, value) ==
    \/ ~c.present
    \/ ~value.given
    \/ /\ c.has_min => IF c.min_inclusive = "true"
                          THEN ~(value.v < c.min) ELSE ~(value.v <= c.min)
       /\ c.has_max => IF c.max_inclusive = "true"
                          THEN ~(value.v > c.max) ELSE ~(value.v >= c.max)

\* lines 76-90 (flash point) and 93-107 (boiling point): FALSE where the
\* code returns False
WithinBounds(c, value) ==
    \/ ~c.present
    \/ ~value.given
    \/ /\ c.has_min => IF GetInclusive(c.min_inclusive)
                          THEN ~(value.v < c.min) ELSE ~(value.v <= c.min)
       /\ c.has_max => IF GetInclusive(c.max_inclusive)
                          THEN ~(value.v > c.max) ELSE ~(value.v >= c.max)

\* _matches_rule
MatchesRule(rule, flash_point, boiling_point) ==
    /\ WithinBounds(rule.flash_point_f, flash_point)
    /\ WithinBounds(rule.boiling_point_f, boiling_point)

\* the dictionary of lines 45-51 and 60-66
NotClassified ==
    [nfpa_class |-> "Not classified", nfpa_flammability |-> 0,
     fire_code_type |-> "Not classified",
     flash_point_description |-> "Not available",
     boiling_point_description |-> "Not available"]

\* the KeyError of self.rules['ghs_to_nfpa'][ghs_category], as a result
Raised ==
    [nfpa_class |-> "KeyError", nfpa_flammability |-> 0, fire_code_type |-> "KeyError",
     flash_point_description |-> "KeyError", boiling_point_description |-> "KeyError"]

\* faulty variant: the last matching rule wins
RECURSIVE FirstMatch_LastWins(_, _, _)
FirstMatch_LastWins(rules, flash_point, boiling_point) ==
    IF rules = <<>> THEN NotClassified
    ELSE LET n == Len(rules)
         IN  IF MatchesRule(rules[n].rule, flash_point, boiling_point)
             THEN rules[n].output
             ELSE FirstMatch_LastWins(SubSeq(rules, 1, n - 1), flash_point, boiling_point)

\* lines 55-66: the loop over the category's rules and the default after it
RECURSIVE FirstMatch(_, _, _)
FirstMatch(rules, flash_point, boiling_point) ==
    IF rules = <<>> THEN NotClassified
    ELSE IF MatchesRule(Head(rules).rule, flash_point, boiling_point)
    THEN Head(rules).output
    ELSE FirstMatch(Tail(rules), flash_point, boiling_point)

\* faulty variant: the category is looked up without the membership test
TranslateGhsToNfpa_Unguarded(table, ghs_category, flash_point_f, boiling_point_f) ==
    IF ghs_category \notin DOMAIN table
    THEN Raised
    ELSE FirstMatch(table[ghs_category], flash_point_f, boiling_point_f)

\* translate_ghs_to_nfpa; `table` is self.rules.get('ghs_to_nfpa', {})
TranslateGhsToNfpa(table, ghs_category, flash_point_f, boiling_point_f) ==
    IF ghs_category \notin DOMAIN table
    THEN NotClassified
    ELSE FirstMatch(table[ghs_category], flash_point_f, boiling_point_f)

\* the thresholds of the rules drawn: a lower and an upper one
LowerThresholds == {73}
UpperThresholds == {100}
InclusiveFlags == {"absent", "true", "false"}

\* the values around the thresholds, and None
Temperatures ==
    {NotSupplied} \cup { Supplied(t + d) : t \in LowerThresholds \cup UpperThresholds,
                                           d \in {-1, 0, 1} }

Constraints ==
    { Constraint(TRUE, FALSE, 0, "absent", FALSE, 0, "absent") }
    \cup { Constraint(TRUE, TRUE, lo, f, FALSE, 0, "absent") :
             lo \in LowerThresholds, f \in InclusiveFlags }
    \cup { Constraint(TRUE, FALSE, 0, "absent", TRUE, hi, f) :
             hi \in UpperThresholds, f \in InclusiveFlags }
    \cup { Constraint(TRUE, TRUE, lo, f, TRUE, hi, f) :
             lo \in LowerThresholds, hi \in UpperThresholds,
             f \in {"absent", "false"} }

\* rule['rule']: constraints on one quantity, on none, or on both
RuleBodies ==
    { [flash_point_f |-> c, boiling_point_f |-> NoConstraint] : c \in Constraints }
    \cup { [flash_point_f |-> NoConstraint, boiling_point_f |-> c] : c \in Constraints }
    \cup { [flash_point_f |-> NoConstraint, boiling_point_f |-> NoConstraint] }
    \cup { [flash_point_f |-> Constraint(TRUE, FALSE, 0, "absent", TRUE, lo, "false"),
            boiling_point_f |-> Constraint(TRUE, FALSE, 0, "absent", TRUE, hi, "absent")] :
             lo \in LowerThresholds, hi \in UpperThresholds }

\* rule['output'] of the rule at position i of a category's list
Outputs ==
    << [nfpa_class |-> "IA", nfpa_flammability |-> 4, fire_code_type |-> "Flammable",
        flash_point_description |-> "< 73 F", boiling_point_description |-> "< 100 F"],
       [nfpa_class |-> "IB", nfpa_flammability |-> 3, fire_code_type |-> "Flammable",
        flash_point_description |-> "< 73 F", boiling_point_description |-> ">= 100 F"],
       [nfpa_class |-> "IC", nfpa_flammability |-> 3, fire_code_type |-> "Flammable",
        flash_point_description |-> ">= 73 F", boiling_point_description |-> "Not available"] >>

Categories == {"Category 1", "Category 2"}

\* the lists of at most MaxRules rules
RuleLists ==
    UNION { { [i \in 1..n |-> [rule |-> bodies[i], output |-> Outputs[i]]] :
                bodies \in [1..n -> RuleBodies] } : n \in 0..MaxRules }

\* the tables: empty, or with rules for "Category 1" only
RuleTables ==
    { [c \in {} |-> <<>>] } \cup { [c \in {"Category 1"} |-> rules] : rules \in RuleLists }

InitTranslate ==
    /\ InitEngine
    /\ settings = DefaultSettings
    /\ extraction = NoCall
    /\ translation \in { [active |-> FALSE, table |-> t, ghs_category |-> c,
                          flash_point_f |-> fp, boiling_point_f |-> bp] :
                           t \in RuleTables, c \in Categories,
                           fp \in Temperatures, bp \in Temperatures }
    /\ bulk = NoCall
    /\ inventory = NoCall
    /\ crawler = NoCall

Translate ==
    /\ ~translation.active
    /\ translation' =
         [active |-> TRUE, table |-> translation.table,
          ghs_category |-> translation.ghs_category,
          flash_point_f |-> translation.flash_point_f,
          boiling_point_f |-> translation.boiling_point_f,
          out |-> TranslateGhsToNfpa(translation.table, translation.ghs_category,
                                     translation.flash_point_f,
                                     translation.boiling_point_f)]
    /\ UNCHANGED engine
    /\ UNCHANGED <<settings, extraction, bulk, inventory, crawler>>

SpecTranslate == InitTranslate /\ [][Translate]_vars

----------------------------------------------------------------------------
(* One call of download_sds_batch under a configuration other than the     *)
(* defaults of config/settings.py (the Settings fields are read from the    *)
(* environment or .env)                                                     *)

\* values SDS_SOURCES can be configured to: the default, and the default
\* with its first two sources exchanged
SourceOrders ==
    { SDS_SOURCES,
      <<"vwr", "chemblink", "fisher", "tci", "chemicalsafety", "fluorochem">> }

InitConfig ==
    /\ InitEngine
    /\ settings \in { [SDS_SOURCES |-> order, MAX_DOWNLOAD_THREADS |-> n] :
                        order \in SourceOrders, n \in {MAX_DOWNLOAD_THREADS, MaxPool} }
    /\ extraction = NoCall
    /\ translation = NoCall
    /\ bulk = NoCall
    /\ inventory = NoCall
    /\ crawler = NoCall

SpecConfig == InitConfig /\ [][NextBatch]_vars

----------------------------------------------------------------------------
(* api/bulk_import.py: upload_dotmatics_csv, one row of the CSV per step.   *)
(* The inventory manager and get_sds_info are represented by the answers    *)
(* they give for a row (the row's kind), download_sds_batch by the          *)
(* details it returns for the list it is given.                             *)

MaxRows == 22

\* `batch_size = 20`
batch_size == 20

\* `errors[:10]`
ErrorLimit == 10

\* what happens to a row of the CSV:
\*   missing         CAS# or IUPAC Name is empty
\*   added           the chemical is new, add_chemical succeeds, no SDS stored
\*   add_failed      the chemical is new, add_chemical fails
\*   updated         the chemical exists, update_chemical succeeds, no SDS stored
\*   updated_has_sds the chemical exists, update_chemical succeeds, an SDS is stored
\*   update_failed   the chemical exists, update_chemical fails, no SDS stored
\*   raises          a manager call raises while the row is processed
RowKinds == {"missing", "added", "add_failed", "updated", "updated_has_sds",
             "update_failed", "raises"}

\* what download_sds_batch does with a list: every entry downloaded (or
\* already there), every entry failed, or the call raises
DownloadModes == {"downloaded", "failed", "raises"}

\* a CSV of n rows: the first s rows of kind a, the others of kind b; the
\* CAS numbers are all different, or two numbers in turn
Csv(n, s, a, b, repeated) ==
    [r \in 1..n |-> [cas |-> IF repeated THEN ((r - 1) % 2) + 1 ELSE r,
                     kind |-> IF r <= s THEN a ELSE b]]

KindPairs ==
    { <<"missing", "added">>, <<"added", "missing">>, <<"added", "update_failed">>,
      <<"update_failed", "updated">>, <<"add_failed", "added">>,
      <<"raises", "updated">>, <<"updated_has_sds", "added">> }

CsvFiles ==
    { Csv(n, s, p[1], p[2], repeated) :
        n \in {0, 1, batch_size - 1, batch_size, MaxRows - 1, MaxRows},
        s \in {0, 1, ErrorLimit + 1}, p \in KindPairs, repeated \in BOOLEAN }

\* an entry of `errors`: the row named and the kind of message
ErrorText(row, what) == [row |-> row, what |-> what]

\* lines 61-70: the locals before the first row
StartImport(csv, download_sds, mode) ==
    [active |-> TRUE, phase |-> "rows", csv |-> csv, download_sds |-> download_sds,
     mode |-> mode,
     total_records |-> 0, successful_imports |-> 0, failed_imports |-> 0,
     sds_downloads |-> 0, errors |-> <<>>,
     cas_batch |-> <<>>, cas_batch_rows |-> [c \in {} |-> 0],
     calls |-> <<>>, queued |-> <<>>, returned_errors |-> <<>>]

\* process_cas_batch: the count of downloads and the errors, for the details
\* download_sds_batch returns in list order
ProcessCasBatch(cas_batch, cas_batch_rows, mode) ==
    [downloaded |-> IF mode = "downloaded" THEN Len(cas_batch) ELSE 0,
     errors |-> IF mode = "downloaded" THEN <<>>
                ELSE [k \in DOMAIN cas_batch |->
                        ErrorText(cas_batch_rows[cas_batch[k]],
                                  IF mode = "failed" THEN "SDS download failed"
                                  ELSE "SDS batch download error")]]

\* the locals after process_cas_batch on the collected batch (lines 150-154
\* and 168-170); `calls` records the list download_sds_batch was given
Flush(b) ==
    LET batch_result == ProcessCasBatch(b.cas_batch, b.cas_batch_rows, b.mode)
    IN  [b EXCEPT !.sds_downloads = @ + batch_result.downloaded,
                  !.errors = @ \o batch_result.errors,
                  !.calls = Append(@, b.cas_batch),
                  !.cas_batch = <<>>,
                  !.cas_batch_rows = [c \in {} |-> 0]]

\* faulty variant: the batch is handed over one entry late
BatchFull_OneLate(cas_batch) == Len(cas_batch) > batch_size

\* `len(cas_batch) >= batch_size`
BatchFull(cas_batch) == Len(cas_batch) >= batch_size

\* lines 136-154: the row's CAS number joins the batch unless an SDS is stored
Enqueue(b, row, has_sds) ==
    IF b.download_sds /\ b.successful_imports > 0 /\ ~has_sds
    THEN LET q == [b EXCEPT !.cas_batch = Append(@, row.cas),
                            !.cas_batch_rows =
                                [c \in DOMAIN @ \cup {row.cas} |->
                                    IF c = row.cas THEN b.total_records ELSE @[c]],
                            !.queued = Append(@, row.cas)]
         IN  IF BatchFull(q.cas_batch) THEN Flush(q) ELSE q
    ELSE b

\* faulty variant: a row without CAS# or name is reported but not counted
AfterRow_MissingUncounted(b0, row) ==
    LET b == [b0 EXCEPT !.total_records = @ + 1]
    IN  IF row.kind = "missing"
        THEN [b EXCEPT !.errors = Append(@, ErrorText(b.total_records,
                                                      "Missing required fields"))]
        ELSE b

\* the body of `for row in csv_reader` (lines 72-162) for one row
AfterRow(b0, row) ==
    LET b == [b0 EXCEPT !.total_records = @ + 1]
        n == b.total_records
        failed(what) == [b EXCEPT !.errors = Append(@, ErrorText(n, what)),
                                  !.failed_imports = @ + 1]
        succeeded == [b EXCEPT !.successful_imports = @ + 1]
    IN  CASE row.kind = "missing" -> failed("Missing required fields")
          [] row.kind = "added" -> Enqueue(succeeded, row, FALSE)
          [] row.kind = "add_failed" -> failed("Failed to add chemical")
          [] row.kind = "updated" -> Enqueue(succeeded, row, FALSE)
          [] row.kind = "updated_has_sds" -> Enqueue(succeeded, row, TRUE)
          [] row.kind = "update_failed" ->
                Enqueue(failed("Failed to update existing chemical"), row, FALSE)
          [] row.kind = "raises" -> failed("Processing error")

\* faulty variant: the last entries are returned
FirstErrors_Last(errors) ==
    IF Len(errors) <= ErrorLimit THEN errors
    ELSE SubSeq(errors, Len(errors) - ErrorLimit + 1, Len(errors))

\* `errors[:10]`
FirstErrors(errors) ==
    IF Len(errors) <= ErrorLimit THEN errors ELSE SubSeq(errors, 1, ErrorLimit)

InitImport ==
    /\ InitEngine
    /\ settings = DefaultSettings
    /\ extraction = NoCall
    /\ translation = NoCall
    /\ bulk \in { StartImport(csv, download_sds, mode) :
                    csv \in CsvFiles, download_sds \in BOOLEAN, mode \in DownloadModes }
    /\ inventory = NoCall
    /\ crawler = NoCall

\* one iteration of the loop over the rows
ImportRow ==
    /\ bulk.phase = "rows"
    /\ bulk.total_records < Len(bulk.csv)
    /\ bulk' = AfterRow(bulk, bulk.csv[bulk.total_records + 1])
    /\ UNCHANGED engine
    /\ UNCHANGED <<settings, extraction, translation, inventory, crawler>>

\* csv_reader raises on the next row (csv.Error): the outer handler answers
\* with HTTP 500 and the collected batch is dropped
CsvError ==
    /\ bulk.phase = "rows"
    /\ bulk.total_records < Len(bulk.csv)
    /\ bulk' = [bulk EXCEPT !.phase = "http_500"]
    /\ UNCHANGED engine
    /\ UNCHANGED <<settings, extraction, translation, inventory, crawler>>

\* lines 164-178: the remaining batch, then the ImportResult
ImportReturn ==
    /\ bulk.phase = "rows"
    /\ bulk.total_records = Len(bulk.csv)
    /\ LET b == IF bulk.cas_batch # <<>> THEN Flush(bulk) ELSE bulk
       IN  bulk' = [b EXCEPT !.phase = "returned",
                             !.returned_errors = FirstErrors(b.errors)]
    /\ UNCHANGED engine
    /\ UNCHANGED <<settings, extraction, translation, inventory, crawler>>

NextImport == ImportRow \/ CsvError \/ ImportReturn

SpecImport == InitImport /\ [][NextImport]_vars

----------------------------------------------------------------------------
(* backend/core/inventory_manager.py: InventoryManager.adjust_inventory *)

\* the number of adjust_inventory calls followed
MaxAdjustments == 2

\* Column(Float): a quantity may be NULL
NoQuantity == [given |-> FALSE, v |-> 0]
Quantity(v) == [given |-> TRUE, v |-> v]

\* chemical.quantity or 0.0
OrZero(q) == IF q.given THEN q.v ELSE 0

\* the tables as add_chemical leaves them, before any adjustment: the
\* chemical "67-64-1" with quantity q and, for a positive q, the initial
\* inventory transaction (lines 70-83)
Stock(known, q) ==
    [ active       |-> TRUE,
      known        |-> known,
      quantity     |-> [c \in CasNumbers |-> IF c = "67-64-1" THEN q ELSE NoQuantity],
      unit         |-> [c \in CasNumbers |-> IF c \in known THEN "g" ELSE "None"],
      transactions |-> IF q.given /\ q.v > 0
                       THEN << [ cas_number        |-> "67-64-1",
                                 transaction_type  |-> "in",
                                 quantity          |-> q.v,
                                 unit              |-> "g",
                                 previous_quantity |-> 0,
                                 new_quantity      |-> q.v ] >>
                       ELSE <<>>,
      answer       |-> [success |-> TRUE, error |-> "None"],
      calls        |-> 0 ]

\* return {"success": False, "error": ...}; the except branch rolls back
Refused(inv, error) ==
    [inv EXCEPT !.answer = [success |-> FALSE, error |-> error],
                !.calls = @ + 1]

adjust_inventory(inv, cas_number, quantity, unit, transaction_type, commit) ==
    IF cas_number \notin inv.known
    THEN Refused(inv, "not found")
    ELSE
    LET previous_quantity == OrZero(inv.quantity[cas_number])
        \* lines 167-177: "Calculate new quantity"
        new_quantity ==
            CASE transaction_type = "in"  -> previous_quantity + quantity
              [] transaction_type = "out" -> previous_quantity - quantity
              [] OTHER                    -> quantity
    IN  IF transaction_type \notin {"in", "out", "adjustment"}
        THEN Refused(inv, "Invalid transaction type")
        ELSE IF transaction_type = "out" /\ new_quantity < 0
        THEN Refused(inv, "Insufficient inventory")
        ELSE IF commit = "raises"
        THEN Refused(inv, "exception")
        ELSE [inv EXCEPT
                !.quantity[cas_number] = Quantity(new_quantity),
                !.unit[cas_number] = unit,
                !.transactions = Append(@,
                    [ cas_number        |-> cas_number,
                      transaction_type  |-> transaction_type,
                      quantity          |-> quantity,
                      unit              |-> unit,
                      previous_quantity |-> previous_quantity,
                      new_quantity      |-> new_quantity ]),
                !.answer = [success |-> TRUE, error |-> "None"],
                !.calls = @ + 1]

InitInventory ==
    /\ InitEngine
    /\ settings = DefaultSettings
    /\ extraction = NoCall
    /\ translation = NoCall
    /\ bulk = NoCall
    /\ crawler = NoCall
    /\ inventory \in { Stock(known, q) :
                         known \in {{"67-64-1"}, CasNumbers},
                         q \in {NoQuantity, Quantity(0), Quantity(1)} }

\* POST /inventory/adjust and the soft delete of DELETE /chemicals/{cas}.
\* api/inventory.py: quantity is a float without validation, unit a string,
\* transaction_type any string ("transfer" stands for the invalid ones)
AdjustInventory ==
    /\ inventory.calls < MaxAdjustments
    /\ \E cas_number \in CasNumbers, quantity \in -1 .. 2, unit \in {"g", "mL"},
          transaction_type \in {"in", "out", "adjustment", "transfer"},
          commit \in {"commits", "raises"} :
          inventory' = adjust_inventory(inventory, cas_number, quantity, unit,
                                        transaction_type, commit)
    /\ UNCHANGED engine
    /\ UNCHANGED <<settings, extraction, translation, bulk, crawler>>

SpecInventory == InitInventory /\ [][AdjustInventory]_vars

----------------------------------------------------------------------------
(* get-all.py: download_sds_with_requests and download_sds_with_selenium    *)
(* as the threads of crawl_product_numbers' pool run them, over the output  *)
(* directory and the two global lists.  A product stands for the pair       *)
(* (product_id, code) that names the output file.  list.append is atomic;   *)
(* the threads interleave between the steps below.                          *)

\* the threads of the pool, the calls followed, the largest max_retries
MaxWorkers == 2
MaxCrawlCalls == 2
MaxRetries == 2

\* main(): the defaults of --start and --end
Products == {"270709", "270710"}
Threads == 1 .. MaxWorkers

\* the attempts that write output_file: the response is a PDF, or a link
\* of the page leads to one
StoringOutcomes == {"direct_pdf", "linked_pdf"}

\* a thread that runs no call
NotCalled ==
    [ fn               |-> "none",
      product          |-> "None",
      max_retries      |-> 0,
      bs4              |-> TRUE,    \* BeautifulSoup imported or installed
      existed          |-> FALSE,   \* os.path.exists(output_file) on entry
      pc               |-> "idle",
      attempt          |-> 0,       \* requests issued on the SDS URL
      stored           |-> FALSE,   \* this call wrote output_file
      recorded_success |-> 0,       \* appends to successful_downloads
      recorded_failure |-> 0,       \* appends to failed_downloads
      pending          |-> "None",  \* the return statement a finally delays
      returned         |-> "None" ]

Entered(cr, fn, product, max_retries, bs4) ==
    [NotCalled EXCEPT !.fn = fn, !.product = product, !.max_retries = max_retries,
                      !.bs4 = bs4, !.existed = product \in cr.files,
                      !.pc = "entered"]

Return(call, value) == [call EXCEPT !.pc = "returned", !.returned = value]

\* lines 452-455: "If we get here, all attempts failed"
AllFailed(cr, t, call) ==
    [cr EXCEPT !.failed_downloads = Append(@, call.product),
               !.calls[t] = Return([call EXCEPT !.recorded_failure = @ + 1], "False")]

\* lines 302-320: the import, the skip of an existing file; line 352 when
\* range(1, max_retries + 1) is empty
download_sds_with_requests(cr, t, product, max_retries, bs4) ==
    LET call == Entered(cr, "requests", product, max_retries, bs4)
        c == [cr EXCEPT !.started = @ + 1]
    IN  IF ~bs4
        THEN [c EXCEPT !.calls[t] = Return(call, "False")]
        ELSE IF product \in cr.files
        THEN [c EXCEPT !.calls[t] = Return(call, "True")]
        ELSE IF max_retries < 1
        THEN AllFailed(c, t, call)
        ELSE [c EXCEPT !.calls[t] = [call EXCEPT !.pc = "attempt"]]

\* for attempt in range(1, max_retries + 1): another iteration follows
MoreAttempts_OneTooMany(call) == call.attempt <= call.max_retries
MoreAttempts(call) == call.attempt < call.max_retries

\* lines 460-472: the skip of an existing file, setup_stealth_driver
download_sds_with_selenium(cr, t, product, driver) ==
    LET call == Entered(cr, "selenium", product, 0, TRUE)
        c == [cr EXCEPT !.started = @ + 1]
    IN  IF product \in cr.files
        THEN [c EXCEPT !.calls[t] = Return(call, "True")]
        ELSE IF ~driver
        THEN [c EXCEPT !.calls[t] = Return(call, "False")]
        ELSE [c EXCEPT !.calls[t] = [call EXCEPT !.pc = "homepage"]]

\* a return statement, or the end of the try statement, inside try/finally
Leave(call, value) == [call EXCEPT !.pc = "finally", !.pending = value]

\* OUTPUT_DIR may hold files of an earlier run; the lists start empty
InitCrawler ==
    /\ InitEngine
    /\ settings = DefaultSettings
    /\ extraction = NoCall
    /\ translation = NoCall
    /\ bulk = NoCall
    /\ inventory = NoCall
    /\ crawler \in { [ active               |-> TRUE,
                       files                |-> fs,
                       successful_downloads |-> <<>>,
                       failed_downloads     |-> <<>>,
                       calls                |-> [t \in Threads |-> NotCalled],
                       started              |-> 0 ] : fs \in SUBSET Products }

\* process_product_id, lines 778-783: the thread is between two calls
CallRequests(t) ==
    /\ crawler.calls[t].pc \in {"idle", "returned"}
    /\ crawler.started < MaxCrawlCalls
    /\ \E product \in Products, max_retries \in 0 .. MaxRetries, bs4 \in BOOLEAN :
          crawler' = download_sds_with_requests(crawler, t, product, max_retries, bs4)
    /\ UNCHANGED engine
    /\ UNCHANGED <<settings, extraction, translation, bulk, inventory>>

\* lines 352-450: one iteration of the retry loop, session.get on the SDS
\* URL and what follows it
RequestsAttempt(t) ==
    /\ crawler.calls[t].fn = "requests"
    /\ crawler.calls[t].pc = "attempt"
    /\ \E outcome \in StoringOutcomes \cup {"no_pdf", "http_error", "timeout", "error"} :
          LET call == [crawler.calls[t] EXCEPT !.attempt = @ + 1]
          IN  crawler' =
                IF outcome \in StoringOutcomes
                THEN [crawler EXCEPT
                        !.files = @ \cup {call.product},
                        !.calls[t] = Return([call EXCEPT !.stored = TRUE], "True")]
                ELSE IF MoreAttempts(call)
                THEN [crawler EXCEPT !.calls[t] = call]
                ELSE AllFailed(crawler, t, call)
    /\ UNCHANGED engine
    /\ UNCHANGED <<settings, extraction, translation, bulk, inventory>>

\* process_product_id, lines 785-796
CallSelenium(t) ==
    /\ crawler.calls[t].pc \in {"idle", "returned"}
    /\ crawler.started < MaxCrawlCalls
    /\ \E product \in Products, driver \in BOOLEAN :
          crawler' = download_sds_with_selenium(crawler, t, product, driver)
    /\ UNCHANGED engine
    /\ UNCHANGED <<settings, extraction, translation, bulk, inventory>>

\* lines 478-483: the try body; the rest of the work is in its except clause
SeleniumHomepage(t) ==
    /\ crawler.calls[t].fn = "selenium"
    /\ crawler.calls[t].pc = "homepage"
    /\ \E raises \in BOOLEAN :
          crawler' = [crawler EXCEPT
                        !.calls[t] = IF raises THEN [@ EXCEPT !.pc = "retry"]
                                     ELSE Leave(@, "False")]
    /\ UNCHANGED engine
    /\ UNCHANGED <<settings, extraction, translation, bulk, inventory>>

\* lines 485-495: "Try one more time with a longer wait"
SeleniumHomepageRetry(t) ==
    /\ crawler.calls[t].fn = "selenium"
    /\ crawler.calls[t].pc = "retry"
    /\ \E raises \in BOOLEAN :
          crawler' = [crawler EXCEPT
                        !.calls[t] = IF raises THEN Leave(@, "False")
                                     ELSE [@ EXCEPT !.pc = "sds"]]
    /\ UNCHANGED engine
    /\ UNCHANGED <<settings, extraction, translation, bulk, inventory>>

\* lines 497-677: the loop over possible_urls with the direct URL as a last
\* resort; both success sites append to successful_downloads and return True
SeleniumSdsPages(t) ==
    /\ crawler.calls[t].fn = "selenium"
    /\ crawler.calls[t].pc = "sds"
    /\ \E outcome \in {"page_download", "direct_download", "nothing"} :
          crawler' =
            IF outcome = "nothing"
            THEN [crawler EXCEPT !.calls[t] = Leave(@, "False")]
            ELSE [crawler EXCEPT
                    !.files = @ \cup {crawler.calls[t].product},
                    !.successful_downloads = Append(@, crawler.calls[t].product),
                    !.calls[t] = Leave([@ EXCEPT !.stored = TRUE,
                                                 !.recorded_success = @ + 1], "True")]
    /\ UNCHANGED engine
    /\ UNCHANGED <<settings, extraction, translation, bulk, inventory>>

\* lines 680-691: the finally clause, then the delayed return
SeleniumFinally(t) ==
    /\ crawler.calls[t].fn = "selenium"
    /\ crawler.calls[t].pc = "finally"
    /\ crawler' = [crawler EXCEPT
                     !.failed_downloads = Append(@, crawler.calls[t].product),
                     !.calls[t] = Return([@ EXCEPT !.recorded_failure = @ + 1],
                                         @.pending)]
    /\ UNCHANGED engine
    /\ UNCHANGED <<settings, extraction, translation, bulk, inventory>>

NextCrawler ==
    \E t \in Threads :
        \/ CallRequests(t)
        \/ RequestsAttempt(t)
        \/ CallSelenium(t)
        \/ SeleniumHomepage(t)
        \/ SeleniumHomepageRetry(t)
        \/ SeleniumSdsPages(t)
        \/ SeleniumFinally(t)

SpecCrawler == InitCrawler /\ [][NextCrawler]_vars

----------------------------------------------------------------------------
(* Claims *)

Inputs(c) == { i \in DOMAIN cas_list : cas_list[i] = c }
Outcomes(c) == { i \in DOMAIN results.details : results.details[i].cas_number = c }

Downloaded(d) == d.success /\ d.source # "already_exists"
AlreadyExists(d) == d.success /\ d.source = "already_exists"
Failed(d) == ~d.success

NumberOf(P(_)) == Cardinality({ i \in DOMAIN results.details : P(results.details[i]) })

\* the summary has one outcome per list entry
OnePerIdentifier ==
    /\ results.total = Len(cas_list)
    /\ Len(results.details) = Len(cas_list)
    /\ \A c \in CasNumbers : Cardinality(Outcomes(c)) = Cardinality(Inputs(c))

\* C1 as stated: for every non-empty list the returned summary has total =
\* the list's length and exactly one outcome per requested identifier.
C1_EveryListAsStated ==
    (phase = "returned" /\ cas_list # <<>>) => OnePerIdentifier

\* C1, amended: for every non-empty list and a pool size that is absent or at
\* least 1, the returned summary has total = the list's length and exactly
\* one outcome per requested identifier, whatever the workers returned.
C1_OneOutcomePerIdentifier ==
    (phase = "returned" /\ cas_list # <<>> /\ pool_size >= 1) => OnePerIdentifier

C1_Witness ==
    /\ phase = "returned"
    /\ pool_size >= 1
    /\ Len(cas_list) = 2
    /\ cas_list[1] # cas_list[2]
    /\ \E i, j \in DOMAIN results.details :
         Failed(results.details[i]) /\ Downloaded(results.details[j])

\* the three counters partition the outcomes
CountersPartition ==
    /\ results.downloaded + results.failed + results.already_exists = results.total
    /\ results.total = Len(results.details)
    /\ results.downloaded = NumberOf(Downloaded)
    /\ results.failed = NumberOf(Failed)
    /\ results.already_exists = NumberOf(AlreadyExists)

\* C2 as stated: in every summary returned, downloaded + failed +
\* already_exists = total = the number of details, and each counter is the
\* number of details with that status.
C2_EverySummaryAsStated ==
    (phase = "returned" /\ results.has_counts) => CountersPartition

\* C2, amended: in every summary returned by a call whose pool size is absent
\* or at least 1, downloaded + failed + already_exists = total = the number
\* of details, and each counter is the number of details with that status.
C2_CountersPartition ==
    (phase = "returned" /\ results.has_counts /\ pool_size >= 1) => CountersPartition

\* the example of the specification: two identifiers, the second one served
C2_Witness ==
    /\ phase = "returned"
    /\ cas_list = <<"67-64-1", "872-85-5">>
    /\ results.total = 2 /\ results.downloaded = 1 /\ results.failed = 1
    /\ Len(results.details) = 2
    /\ Failed(results.details[1]) /\ Downloaded(results.details[2])

\* C3 as stated: the second of two calls in a row with the same list (both
\* running their workers) yields already_exists for every identifier and
\* writes nothing.
C3_IdempotentAsStated ==
    (phase = "returned" /\ prev.valid /\ prev.error = None /\ pool_size >= 1) =>
        /\ Len(results.details) = Len(cas_list)
        /\ \A i \in DOMAIN results.details : AlreadyExists(results.details[i])
        /\ wrote = {}

\* C3, amended: of two calls in a row with the same list, the second (with a
\* pool size absent or at least 1) yields already_exists for every list entry
\* whose outcome in the first call was downloaded or already_exists, and
\* writes nothing for these identifiers.
C3_IdempotentWhereStored ==
    (phase = "returned" /\ prev.valid /\ pool_size >= 1) =>
        /\ Len(results.details) = Len(cas_list)
        /\ \A i \in DOMAIN prev.success :
             prev.success[i] =>
                /\ AlreadyExists(results.details[i])
                /\ cas_list[i] \notin wrote

C3_Witness ==
    /\ phase = "returned" /\ prev.valid /\ pool_size >= 1
    /\ Len(cas_list) = 2 /\ Len(prev.success) = 2
    /\ prev.success[1] /\ ~prev.success[2]
    /\ AlreadyExists(results.details[1])

\* C4: a 'downloaded' outcome comes only from a response with status 200, no
\* redirect and a body that begins with the PDF magic header.
C4_DownloadedOnlyPdf ==
    \A i \in DOMAIN task :
        (task[i].pc = "done" /\ Downloaded(task[i].res)) =>
            /\ task[i].resp.status = 200
            /\ task[i].resp.redirects = 0
            /\ StartsWithPdf(task[i].resp.body)

\* C5: the sources are called in their fixed order, each only after all the
\* earlier ones, and the first accepted and saved response ends the loop: its
\* source is the one reported and no later source is called.
C5_PriorityOrderFirstWins ==
    \A i \in DOMAIN task :
        LET t == task[i] IN
        /\ Len(t.called) <= Len(Sources)
        /\ \A n \in DOMAIN t.called : t.called[n] = Sources[n]
        /\ t.resp # NoResponse =>
              /\ t.pc = "done"
              /\ Downloaded(t.res)
              /\ t.res.source = t.called[Len(t.called)]
        /\ (t.pc = "done" /\ Downloaded(t.res)) => t.resp # NoResponse

C5_Witness ==
    \E i \in DOMAIN task :
        /\ task[i].pc = "done"
        /\ task[i].res.source = "vwr"
        /\ task[i].called = <<"chemblink", "vwr">>

\* C6: when a source raises, finds nothing or its fetch fails, the worker
\* goes on with the next source; only after the last source does it give up.
C6_FailureMovesOn ==
    [][\A i \in DOMAIN task :
          (AdapterRaises(i) \/ AdapterNoMatch(i) \/ AdapterBadResponse(i)) =>
             /\ task'[i].called = Append(task[i].called, Sources[task[i].k])
             /\ IF task[i].k < Len(Sources)
                THEN task'[i].pc = "try" /\ task'[i].k = task[i].k + 1
                ELSE task'[i].pc = "done" /\ Failed(task'[i].res)]_vars

C6_Witness ==
    \E i \in DOMAIN task :
        /\ task[i].pc = "try"
        /\ task[i].k = 3
        /\ task[i].called = <<"chemblink", "vwr">>

\* C7: after all sources failed the outcome is 'failed' without source or
\* path, with the error text, and no file exists for the identifier.
C7_ExhaustedLeavesNothing ==
    \A i \in DOMAIN task :
        (task[i].pc = "done" /\ Failed(task[i].res)) =>
            /\ task[i].res.source = None
            /\ task[i].res.file_path = None
            /\ task[i].res.error = "No SDS found from any source"
            /\ ~files[task[i].cas].exists

\* C8: a worker that finds the file present returns already_exists at once,
\* having called no source and issued no GET.
C8_ExistingFileNoNetwork ==
    [][\A i \in DOMAIN task :
          (task[i].pc = "check" /\ files[task[i].cas].exists /\ task'[i] # task[i]) =>
             /\ task'[i].pc = "done"
             /\ AlreadyExists(task'[i].res)
             /\ task'[i].called = <<>>
             /\ ~task'[i].fetched]_vars

C8_Witness ==
    \E i \in DOMAIN task :
        /\ task[i].pc = "done"
        /\ AlreadyExists(task[i].res)
        /\ task[i].called = <<>> /\ ~task[i].fetched

\* C9: a write that fails leaves no file, ends the identifier as 'failed' and
\* does not go on to further sources.
C9_WriteAllOrNothing ==
    [][\A i \in DOMAIN task :
          AdapterWriteFails(i) =>
             /\ ~files'[task[i].cas].exists
             /\ task'[i].pc = "done"
             /\ Failed(task'[i].res)]_vars

\* C10: at most one sds_files row exists for an identifier.
C10_OneRecordPerIdentifier ==
    \A c \in CasNumbers :
        Cardinality({ n \in DOMAIN sds_files : sds_files[n].chemical = c }) <= 1

RowsOf(c) == { n \in DOMAIN sds_files : sds_files[n].chemical = c }

\* C11: documents with identical bytes are stored once: no two different
\* identifiers have files holding the same complete document.
C11_StoredOnce ==
    \A c1, c2 \in CasNumbers :
        (c1 # c2 /\ files[c1].exists /\ files[c2].exists /\ files[c1].bytes \in Bodies) =>
            files[c1].bytes # files[c2].bytes

\* C12: while an identifier has a file and a record, no step changes the
\* bytes of the file or the fields of its records.
C12_ImmutableOnceWritten ==
    [][\A c \in CasNumbers :
          (files[c].exists /\ RowsOf(c) # {}) =>
             /\ files'[c] = files[c]
             /\ \A n \in RowsOf(c) :
                   n \in DOMAIN sds_files' /\ sds_files'[n] = sds_files[n]]_vars

\* C13: the existence check and the write are separate steps: a worker that
\* has passed the check saves its response and reports 'downloaded' although
\* another worker of the batch has stored the same identifier meanwhile.
C13_CheckThenWriteNotAtomic ==
    [][\A i \in DOMAIN task :
          ( /\ task[i].pc = "try"
            /\ \E j \in DOMAIN task :
                  /\ j # i
                  /\ task[j].cas = task[i].cas
                  /\ task[j].pc = "done"
                  /\ Downloaded(task[j].res)
            /\ AdapterDownloads(i) ) =>
             /\ task'[i].pc = "done"
             /\ Downloaded(task'[i].res)
             /\ files'[task[i].cas] = FileOf(task'[i].resp.body)]_vars

\* both workers fetched, both wrote {identifier}-SDS.pdf, both report downloaded
C13_Witness ==
    \E i, j \in DOMAIN task :
        /\ i # j
        /\ task[i].cas = task[j].cas
        /\ task[i].pc = "done" /\ Downloaded(task[i].res) /\ task[i].resp # NoResponse
        /\ task[j].pc = "done" /\ Downloaded(task[j].res) /\ task[j].resp # NoResponse
        /\ task[i].cas \in wrote

\* the file of c was there when the call in progress started
ExistedAtStart(c) == files[c].exists /\ c \notin wrote

Distinct(list) == \A i, j \in DOMAIN list : i # j => list[i] # list[j]

\* the sources and the disk behaved alike towards the workers of one identifier
SameBehaviour ==
    /\ \A i, j \in DOMAIN task :
          (task[i].cas = task[j].cas /\ task[i].called # <<>> /\ task[j].called # <<>>) =>
             (task[i].called = task[j].called /\ task[i].resp = task[j].resp)
    /\ \A c \in wrote : files[c].bytes \in Bodies

\* C14 as stated: for every list, whatever the interleaving of the workers,
\* the summary is the one of the run that handles the entries one after the
\* other under the same behaviour of the sources: details in list order, an
\* entry being already_exists exactly when its file was there at the start or
\* an earlier entry of the same identifier has stored it.
C14_EveryListAsStated ==
    (phase = "returned" /\ pool_size >= 1 /\ SameBehaviour) =>
        /\ Len(results.details) = Len(cas_list)
        /\ \A i \in DOMAIN results.details :
              /\ results.details[i].cas_number = cas_list[i]
              /\ AlreadyExists(results.details[i]) <=>
                    \/ ExistedAtStart(cas_list[i])
                    \/ \E j \in 1..(i - 1) :
                          cas_list[j] = cas_list[i] /\ results.details[j].success

\* C14, amended: for a list without repeated identifiers the summary is fixed
\* by the list, the files present at the start and what the sources did for
\* each identifier, whatever the interleaving of the workers: the details
\* follow the list order, an entry is already_exists exactly when its file
\* was there at the start, downloaded exactly when a response was saved (from
\* the source reported), failed exactly when all sources were tried in vain,
\* and the counters count these details.
C14_SummaryDetermined ==
    (phase = "returned" /\ pool_size >= 1 /\ Distinct(cas_list)) =>
        /\ Len(results.details) = Len(cas_list)
        /\ CountersPartition
        /\ \A i \in DOMAIN results.details :
              LET d == results.details[i]
                  t == task[i]
              IN  /\ d.cas_number = cas_list[i]
                  /\ d = Detail(t.res)
                  /\ AlreadyExists(d) <=> ExistedAtStart(cas_list[i])
                  /\ Downloaded(d) <=> t.resp # NoResponse
                  /\ Downloaded(d) => d.source = Sources[Len(t.called)]
                  /\ Failed(d) <=> (~ExistedAtStart(cas_list[i]) /\ t.resp = NoResponse)
                  /\ Failed(d) => t.called = Sources

C14_Witness ==
    /\ phase = "returned"
    /\ pool_size = MAX_DOWNLOAD_THREADS
    /\ Len(cas_list) = 2 /\ Distinct(cas_list)
    /\ Len(results.details) = 2
    /\ AlreadyExists(results.details[1])
    /\ Downloaded(results.details[2])

\* C15: while the pool works, the entries being processed at once are never
\* more than the pool size (the caller's, or MAX_DOWNLOAD_THREADS when none is
\* given), and every list entry has exactly one task, in list order.
C15_PoolBound ==
    phase = "pool" =>
        /\ pool_size \in (1..MaxPool) \cup {MAX_DOWNLOAD_THREADS}
        /\ Cardinality({ i \in DOMAIN task : Running(i) }) <= pool_size
        /\ Len(task) = Len(cas_list)
        /\ \A i \in DOMAIN task : task[i].cas = cas_list[i]

\* the second entry waits while the only worker is busy with the first
C15_Witness ==
    /\ phase = "pool"
    /\ pool_size = 1
    /\ Len(task) = 2
    /\ Running(1)
    /\ task[2].pc = "queued"

\* C16: a submitted batch runs to its end: every list entry reaches a
\* terminal outcome, whatever happened to the others, and the call returns
\* with one detail per entry.
C16_BatchRunsToCompletion ==
    (phase = "pool") ~>
        /\ phase = "returned"
        /\ Len(results.details) = Len(cas_list)
        /\ \A i \in DOMAIN task :
              /\ task[i].pc = "done"
              /\ Downloaded(task[i].res) \/ AlreadyExists(task[i].res) \/ Failed(task[i].res)

\* the first entry failed at every source and the second was still served
C16_Witness ==
    /\ phase = "returned"
    /\ pool_size = 1
    /\ Len(results.details) = 2
    /\ Failed(results.details[1])
    /\ task[1].called = Sources
    /\ Downloaded(results.details[2])

\* C17: while the pool of a batch exists the tables change only in a step of
\* the coordinator's loop, taken after every worker has returned its result;
\* the step handles one list entry and touches rows of its identifier only.
\* No worker step changes a table.
C17_OnlyCoordinatorWrites ==
    [][(phase = "pool" /\ <<chemicals, sds_files, ghs>>' # <<chemicals, sds_files, ghs>>) =>
          /\ \A i \in DOMAIN task : task[i].pc = "done"
          /\ task' = task
          /\ files' = files
          /\ idx \in DOMAIN task
          /\ idx' = idx + 1
          /\ chemicals' \subseteq chemicals \cup {task[idx].cas}
          /\ WithoutChemical(sds_files', task[idx].cas) = WithoutChemical(sds_files, task[idx].cas)
          /\ WithoutChemical(ghs', task[idx].cas) = WithoutChemical(ghs, task[idx].cas)]_vars

\* the coordinator has stored the rows of the first entry and not yet
\* handled the second
C17_Witness ==
    /\ phase = "pool"
    /\ requests = 1
    /\ Len(task) = 2
    /\ idx = 2
    /\ task[1].cas # task[2].cas
    /\ RowsOf(task[1].cas) # {}
    /\ \E n \in DOMAIN ghs : ghs[n].chemical = task[1].cas

\* a call that has returned with an error
Rejected == results.error # None

\* C18: the pool works only for a non-empty list and a pool size of at least
\* 1; a call with an empty list or a pool size below 1 returns an error
\* having called no source and left the files and the tables as they were;
\* every other call returns a summary without error that has counters and one
\* detail per list entry.
C18_FailsOnlyOnBadConfiguration ==
    [][ /\ phase' = "pool" => (cas_list' # <<>> /\ pool_size' >= 1)
        /\ phase' = "returned" =>
              IF cas_list' = <<>> \/ pool_size' < 1
              THEN /\ Rejected'
                   /\ phase # "pool"
                   /\ task' = <<>>
                   /\ wrote' = {}
                   /\ results'.details = <<>>
                   /\ UNCHANGED <<files, chemicals, sds_files, ghs>>
              ELSE /\ ~Rejected'
                   /\ results'.has_counts
                   /\ results'.total = Len(cas_list')
                   /\ Len(results'.details) = Len(cas_list') ]_vars

\* a call with a pool size below 1 was turned down while a stored file stayed
C18_Witness ==
    /\ phase = "returned"
    /\ cas_list # <<>>
    /\ pool_size < 1
    /\ Rejected
    /\ task = <<>>
    /\ \E c \in CasNumbers : files[c].exists /\ RowsOf(c) # {}

C20_LastSuccessfulRunWins ==
    \A c \in CasNumbers :
        LET rows == { n \in DOMAIN ghs : ghs[n].chemical = c } IN
        /\ Cardinality(rows) <= 1
        /\ \A n \in rows : ghs[n] # GhsRow(c, GhsErrorInfo)

----------------------------------------------------------------------------
(* Hazard extraction *)

\* the rows of the classification table that belong to identifier c
GhsRowsOf(rows, c) == SelectSeq(rows, LAMBDA r : r.chemical = c)

\* C21: when the delete-then-insert step of an extraction call fails, the
\* call reports failure and the classification table is as it was before
\* the call, so the identifier's earlier record is still there unchanged
C21_PersistIsAtomic ==
    [][(extraction' # extraction /\ extraction'.fault # "none")
         => /\ ~extraction'.success
            /\ \A c \in CasNumbers : GhsRowsOf(ghs', c) = GhsRowsOf(ghs, c)]_vars

\* an extraction for an identifier failed at the insert or the commit and the
\* identifier's record of the earlier run is in the table
C21_Witness ==
    /\ extraction.active
    /\ extraction.n = 2
    /\ extraction.fault \in {"insert", "commit"}
    /\ ~extraction.success
    /\ Len(GhsRowsOf(ghs, extraction.cas)) = 1

\* the first parser failed: the import or the parse raised
Stage1Failed(doc) == doc.kind \in {"import_error", "raises"}

\* the first parser's output has a hazard statement or a pictogram
Stage1Accepted(doc) ==
    /\ doc.kind = "data"
    /\ Stage1(doc).hazard_statements # <<>> \/ Stage1(doc).pictograms # <<>>

RanStage2(stages) == \E i \in DOMAIN stages : stages[i] = 2

\* C22: the second parser runs exactly when the first one raised, returned
\* nothing or yielded neither hazard statements nor pictograms; accepted
\* output of the first parser is returned as it is; and a failure of the
\* first parser never becomes an extraction error (an error comes only from
\* a text that cannot be read)
C22_FallbackExactlyWhenNeeded ==
    extraction.active =>
        /\ RanStage2(extraction.stages) <=> ~Stage1Accepted(extraction.doc)
        /\ Stage1Accepted(extraction.doc) => extraction.info = Stage1(extraction.doc)
        /\ (Stage1Failed(extraction.doc) /\ extraction.doc.readable)
              => extraction.info.source # "error"

\* C23: the tag is 'sdsparser' exactly when the first parser's output was
\* accepted and 'pypdf2_fallback' whenever the second parser produced the
\* result, after a raise as well as after an empty result
C23_TagNamesProducingStage ==
    (extraction.active /\ extraction.info.source # "error") =>
        /\ extraction.info.source = "sdsparser" <=> Stage1Accepted(extraction.doc)
        /\ RanStage2(extraction.stages) => extraction.info.source = "pypdf2_fallback"

\* the four-symbol H-codes of a text, in the order found
HCodesIn(text) ==
    LET at == { i \in DOMAIN text : IsHCodeAt(text, i) }
    IN  { SubSeq(text, i, i + 3) : i \in at }

\* C24: the hazard statements the pattern scan returns are the distinct
\* H-codes of the text in ascending order: H225, H225, H315 gives
\* ["H225", "H315"]
C24_DistinctSortedHCodes ==
    (extraction.active /\ extraction.doc.kind = "raises") =>
        extraction.info.hazard_statements = Ascending(HCodesIn(extraction.doc.text))

----------------------------------------------------------------------------
(* GHS to NFPA translation *)

\* the rules of the category asked for (none when the table lacks it)
RulesAsked ==
    IF translation.ghs_category \in DOMAIN translation.table
    THEN translation.table[translation.ghs_category]
    ELSE <<>>

\* the positions of the rules whose bounds the call's values all satisfy
Matching ==
    { i \in DOMAIN RulesAsked :
        MatchesRule(RulesAsked[i].rule, translation.flash_point_f,
                    translation.boiling_point_f) }

\* C25: the output is that of the first rule, in table order, whose bounds
\* are all satisfied: a rule's output is returned only if it matches and no
\* earlier rule of the category does
C25_FirstMatchingRuleWins ==
    translation.active =>
        \A i \in DOMAIN RulesAsked :
            /\ (i \in Matching /\ \A j \in 1..(i - 1) : j \notin Matching)
                  => translation.out = RulesAsked[i].output
            /\ translation.out = RulesAsked[i].output
                  => (i \in Matching /\ \A j \in 1..(i - 1) : j \notin Matching)

\* two rules match and the first one's output is returned
C25_Witness ==
    /\ translation.active
    /\ Matching = {1, 2}
    /\ translation.out = RulesAsked[1].output
    /\ translation.out # RulesAsked[2].output

\* C26: a category that the table lacks, or values that match no rule, give
\* the fixed default ('Not classified', 0, 'Not classified'), not an error
C26_DefaultWhenNothingApplies ==
    (translation.active /\ Matching = {}) =>
        /\ translation.out.nfpa_class = "Not classified"
        /\ translation.out.nfpa_flammability = 0
        /\ translation.out.fire_code_type = "Not classified"

\* the category is missing from a table that has rules for another one
C26_Witness ==
    /\ translation.active
    /\ translation.ghs_category \notin DOMAIN translation.table
    /\ DOMAIN translation.table # {}
    /\ translation.flash_point_f.given
    /\ translation.out = NotClassified

\* the first rule constrains only quantity c, and there only one side
OnlyUpper(c, other) == c.present /\ c.has_max /\ ~c.has_min /\ ~other.present
OnlyLower(c, other) == c.present /\ c.has_min /\ ~c.has_max /\ ~other.present

\* what C27 states of a constraint c and the value supplied for it, for a
\* call whose first rule is r: returned says that r's output came back
BoundaryBehaviour(c, other, value, returned) ==
    /\ (c.present /\ c.has_max /\ c.max_inclusive # "false"
          /\ value.given /\ value.v = c.max + 1) => ~returned
    /\ (OnlyUpper(c, other) /\ c.max_inclusive # "false"
          /\ value.given /\ value.v = c.max) => returned
    /\ (c.present /\ c.has_min /\ c.min_inclusive # "false"
          /\ value.given /\ value.v = c.min - 1) => ~returned
    /\ (OnlyLower(c, other) /\ c.min_inclusive # "false"
          /\ value.given /\ value.v = c.min) => returned

\* C27: a bound that is inclusive, by its flag or by default, is met by a
\* value equal to it and missed by a value one beyond it, for flash point
\* and boiling point alike
C27_InclusiveBounds ==
    (translation.active /\ RulesAsked # <<>>) =>
        LET r == RulesAsked[1]
            returned == translation.out = r.output
        IN  /\ BoundaryBehaviour(r.rule.flash_point_f, r.rule.boiling_point_f,
                                 translation.flash_point_f, returned)
            /\ BoundaryBehaviour(r.rule.boiling_point_f, r.rule.flash_point_f,
                                 translation.boiling_point_f, returned)

\* a flash point equal to an upper bound without an inclusive flag matched
C27_Witness ==
    /\ translation.active
    /\ RulesAsked # <<>>
    /\ OnlyUpper(RulesAsked[1].rule.flash_point_f, RulesAsked[1].rule.boiling_point_f)
    /\ RulesAsked[1].rule.flash_point_f.max_inclusive = "absent"
    /\ translation.flash_point_f = Supplied(RulesAsked[1].rule.flash_point_f.max)
    /\ translation.out = RulesAsked[1].output

----------------------------------------------------------------------------
(* Configuration *)

IsPrefix(a, b) == Len(a) <= Len(b) /\ a = SubSeq(b, 1, Len(a))

\* C28: the pool size used when the caller gives none is the configured one,
\* and the adapters are tried in the configured order: what a worker has
\* called so far is an initial part of settings.SDS_SOURCES
C28_OrderAndPoolFromConfiguration ==
    /\ phase = "pool" => pool_size \in (1..MaxPool) \cup {settings.MAX_DOWNLOAD_THREADS}
    /\ \A i \in DOMAIN task : IsPrefix(task[i].called, settings.SDS_SOURCES)

----------------------------------------------------------------------------
(* Bulk import *)

RECURSIVE Concatenation(_)
Concatenation(lists) ==
    IF lists = <<>> THEN <<>> ELSE Head(lists) \o Concatenation(Tail(lists))

\* C29: every list the import hands to download_sds_batch has between 1 and
\* 20 identifiers, and when the import returns the lists handed over, put
\* end to end, are the identifiers queued, each passed exactly once
C29_SubBatchesOfAtMostTwenty ==
    /\ \A k \in DOMAIN bulk.calls : Len(bulk.calls[k]) >= 1 /\ Len(bulk.calls[k]) <= 20
    /\ bulk.phase = "returned" => Concatenation(bulk.calls) = bulk.queued

\* an import that queued more than 20 identifiers has returned after a call
\* with 20 of them and a call with the others
C29_Witness ==
    /\ bulk.phase = "returned"
    /\ Len(bulk.queued) > 20
    /\ Len(bulk.calls) = 2
    /\ Len(bulk.calls[1]) = 20
    /\ Len(bulk.calls[2]) = Len(bulk.queued) - 20

\* C30: the error list of the response has at most 10 entries, and they are
\* the first entries of the errors in the order they occurred
C30_FirstTenErrors ==
    bulk.phase = "returned" =>
        /\ Len(bulk.returned_errors) <= 10
        /\ Len(bulk.returned_errors) = IF Len(bulk.errors) < 10 THEN Len(bulk.errors) ELSE 10
        /\ \A k \in DOMAIN bulk.returned_errors : bulk.returned_errors[k] = bulk.errors[k]

\* more than 10 errors occurred, from rows and from downloads, and 10 are returned
C30_Witness ==
    /\ bulk.phase = "returned"
    /\ Len(bulk.errors) > 10
    /\ Len(bulk.returned_errors) = 10
    /\ \E k \in DOMAIN bulk.errors : bulk.errors[k].what = "SDS download failed"
    /\ \E k \in DOMAIN bulk.errors : bulk.errors[k].what = "Missing required fields"
    /\ bulk.errors[Len(bulk.errors)] # bulk.errors[1]

\* C31: every list the import hands to download_sds_batch holds pairwise
\* distinct identifiers, also for a CSV that names a CAS number in several rows
C31_SubBatchesHoldDistinctIdentifiers ==
    \A k \in DOMAIN bulk.calls : Distinct(bulk.calls[k])

\* the kinds of row whose add or update succeeded with no document recorded
QueueableKinds == {"added", "updated"}

\* C36: an identifier waits in the batch only if download was requested and
\* the add or update of the row it came from succeeded with no stored
\* document recorded; a row whose update failed is never queued
C36_QueuedOnlyAfterOwnSuccess ==
    \A c \in DOMAIN bulk.cas_batch_rows :
        /\ bulk.download_sds
        /\ bulk.csv[bulk.cas_batch_rows[c]].kind \in QueueableKinds

\* C37: every row read so far is counted once, as a success or as a failure
C37_EveryRowCountedOnce ==
    bulk.successful_imports + bulk.failed_imports = bulk.total_records

\* an import of all rows has returned with rows that failed validation and
\* rows that were added, whose download raised
C37_Witness ==
    /\ bulk.phase = "returned"
    /\ bulk.total_records = MaxRows
    /\ bulk.failed_imports > 0
    /\ bulk.successful_imports > 0
    /\ bulk.mode = "raises"
    /\ bulk.calls # <<>>
    /\ \E r \in DOMAIN bulk.csv : bulk.csv[r].kind = "missing"

\* nothing in constraint c can exclude the value: the value is not
\* supplied, or the rule has no such constraint, or the constraint no bound
Unconstrained(c, value) == ~value.given \/ ~c.present \/ (~c.has_min /\ ~c.has_max)

\* C32: bounds are tested only on values the caller supplies, and a bound a
\* rule lacks excludes nothing: the first rule of a known category is
\* returned when both values are absent, when the rule leaves the supplied
\* values unconstrained, and when its only bound is one the value meets
C32_AbsentValuesAndBoundsNeverFail ==
    (translation.active /\ RulesAsked # <<>>) =>
        LET r == RulesAsked[1]
            fp == translation.flash_point_f
            bp == translation.boiling_point_f
            returned == translation.out = r.output
        IN  /\ (~fp.given /\ ~bp.given) => returned
            /\ (Unconstrained(r.rule.flash_point_f, fp)
                  /\ Unconstrained(r.rule.boiling_point_f, bp)) => returned
            /\ (OnlyUpper(r.rule.flash_point_f, r.rule.boiling_point_f)
                  /\ fp.given /\ fp.v < r.rule.flash_point_f.max) => returned
            /\ (OnlyLower(r.rule.flash_point_f, r.rule.boiling_point_f)
                  /\ fp.given /\ fp.v > r.rule.flash_point_f.min) => returned
            /\ (OnlyUpper(r.rule.boiling_point_f, r.rule.flash_point_f)
                  /\ bp.given /\ bp.v < r.rule.boiling_point_f.max) => returned
            /\ (OnlyLower(r.rule.boiling_point_f, r.rule.flash_point_f)
                  /\ bp.given /\ bp.v > r.rule.boiling_point_f.min) => returned

\* neither value was supplied to a rule that bounds both, and the rule matched
C32_Witness ==
    /\ translation.active
    /\ RulesAsked # <<>>
    /\ ~translation.flash_point_f.given
    /\ ~translation.boiling_point_f.given
    /\ RulesAsked[1].rule.flash_point_f.has_max
    /\ RulesAsked[1].rule.boiling_point_f.has_max
    /\ translation.out = RulesAsked[1].output

----------------------------------------------------------------------------
(* Consistency of the directory and the sds_files table *)

\* C33: when a batch call has returned, every identifier reported as
\* downloaded or already_exists has an sds_files row
C33_StoredFileHasRecord ==
    (phase = "returned" /\ results.has_counts) =>
        \A k \in DOMAIN results.details :
            (Downloaded(results.details[k]) \/ AlreadyExists(results.details[k]))
               => RowsOf(results.details[k].cas_number) # {}

\* C34: between requests, the checksum and the size of every sds_files row
\* are those of the bytes now stored in the identifier's file
C34_RecordDescribesStoredBytes ==
    phase # "pool" =>
        \A c \in CasNumbers : \A n \in RowsOf(c) :
            /\ files[c].exists
            /\ sds_files[n].checksum = CalculateFileChecksum(c)
            /\ sds_files[n].file_size = FileSize(c)

\* C35: an extraction whose two parsers both fail reports failure and
\* leaves the identifier's classification rows as they were
C35_FailedExtractionKeepsRecord ==
    [][(extraction' # extraction /\ ~extraction'.doc.readable
           /\ extraction'.info.source = "error")
         => /\ ~extraction'.success
            /\ GhsRowsOf(ghs', extraction'.cas) = GhsRowsOf(ghs, extraction'.cas)]_vars
----------------------------------------------------------------------------
(* Inventory *)

\* C38: after any sequence of adjust_inventory calls no known chemical has a
\* negative stored quantity, and a call answered with success False leaves
\* the quantities, the units and the transaction history as they were
C38_NeverNegativeAndRejectedCallsInert ==
    [][inventory' # inventory =>
        /\ \A c \in inventory'.known : OrZero(inventory'.quantity[c]) >= 0
        /\ ~inventory'.answer.success =>
              /\ inventory'.quantity = inventory.quantity
              /\ inventory'.unit = inventory.unit
              /\ inventory'.transactions = inventory.transactions]_vars

----------------------------------------------------------------------------
(* Crawler *)

RequestsCalls == { t \in Threads : crawler.calls[t].fn = "requests" }
SeleniumCalls == { t \in Threads : crawler.calls[t].fn = "selenium" }

\* what the retry loop does for a call that reached it
RetriesAsStated(c) ==
    /\ c.attempt <= c.max_retries
    /\ c.stored => c.returned = "True"
    /\ c.returned = "True" => c.stored /\ c.recorded_failure = 0
    /\ c.returned = "False" =>
          /\ c.attempt = c.max_retries
          /\ ~c.stored
          /\ c.recorded_failure = 1

\* C39 as stated: download_sds_with_requests issues no request and returns
\* True when the output file exists; otherwise it makes at most max_retries
\* attempts, returns True at the first attempt that stores a PDF, and returns
\* False, recording one failure, only after max_retries failed attempts
C39_AsStated ==
    \A t \in RequestsCalls :
        LET c == crawler.calls[t]
        IN  IF c.existed
            THEN c.attempt = 0 /\ (c.returned # "None" => c.returned = "True")
            ELSE RetriesAsStated(c)

\* C39, amended: the same for a call whose BeautifulSoup import (or
\* installation) succeeded; a call whose import and installation both fail
\* returns False at once, with no request and no failure recorded
C39_SkipOrBoundedRetries ==
    \A t \in RequestsCalls :
        LET c == crawler.calls[t]
        IN  IF ~c.bs4
            THEN c.returned = "False" /\ c.attempt = 0 /\ c.recorded_failure = 0
            ELSE IF c.existed
            THEN c.attempt = 0 /\ c.returned = "True"
            ELSE RetriesAsStated(c)

C39_Witness ==
    \E t, u \in RequestsCalls :
        /\ crawler.calls[t].returned = "False"
        /\ crawler.calls[t].bs4
        /\ crawler.calls[t].attempt = MaxRetries
        /\ crawler.calls[t].recorded_failure = 1
        /\ crawler.calls[u].returned = "True"
        /\ crawler.calls[u].stored
        /\ crawler.calls[u].attempt = 1
        /\ crawler.calls[u].max_retries = MaxRetries

\* C40: download_sds_with_selenium records a call in exactly one of the two
\* lists: it returns True only after one append to successful_downloads and
\* none to failed_downloads, and it returns False exactly when it appended
\* a failure
C40_RecordedInExactlyOneList ==
    \A t \in SeleniumCalls :
        LET c == crawler.calls[t]
        IN  c.returned # "None" =>
              /\ c.recorded_success + c.recorded_failure = 1
              /\ c.returned = "True" => c.recorded_success = 1 /\ c.recorded_failure = 0
              /\ c.returned = "False" <=> c.recorded_failure = 1

====
